---- MODULE Spec2Model ----
(***************************************************************************)
(* Candlecraft indicator engine: the ten calculate functions of            *)
(* src/indicators/*.py, each a pure function from an ordered OHLCV         *)
(* sequence and integer parameters to a list of result records; the bar    *)
(* validation of src/pull_ohlcv.py; and the insert methods of the          *)
(* DatabaseManager of src/src/database/manager.py.                         *)
(*                                                                         *)
(* Numbers.  Python floats are modelled as exact rationals <<num, den>>    *)
(* with den > 0 in lowest terms, so equality of values is equality of      *)
(* tuples.  round(x, nd) is modelled as rounding half to even at nd        *)
(* decimal places; SpecFloatTies adds the rounding error of the float      *)
(* computation where it decides a result, at decimal ties.  None is the    *)
(* empty tuple.                                                            *)
(*                                                                         *)
(* Outcome of a call.  A call either returns a list or raises; both are    *)
(* the record [ok, recs, err].                                             *)
(*                                                                         *)
(* Memo.  memo is what a caller has kept of an earlier call (the input as   *)
(* it was, the call and its outcome) to compare a later call with; no      *)
(* calculate function reads or writes it.                                  *)
(*                                                                         *)
(* Bars.  No calculate function reads timestamp, open, symbol, timeframe,  *)
(* asset_class or source; a bar of the model carries the fields that are   *)
(* read: high, low, close (rationals) and volume (a rational or None).      *)
(*                                                                         *)
(* Store.  store is the set of committed rows of the ohlcv_data table; no  *)
(* calculate function reads or writes it.                                  *)
(***************************************************************************)
EXTENDS Integers, Sequences, FiniteSets, TLC

VARIABLES bars, pc, call, result, memo, store

vars == <<bars, pc, call, result, memo, store>>

(***************************************************************************)
(* Bounds of the model.                                                    *)
(***************************************************************************)
MaxLen == 4

MaxPeriod == 3

(***************************************************************************)
(* Exact rational arithmetic (Python float arithmetic without error).      *)
(***************************************************************************)
None == <<>>

Abs(x) == IF x < 0 THEN 0 - x ELSE x

Max2(a, b) == IF a >= b THEN a ELSE b

Min2(a, b) == IF a <= b THEN a ELSE b

RECURSIVE GCD(_, _)
GCD(a, b) == IF b = 0 THEN a ELSE GCD(b, a % b)

Norm(n, d) ==
  LET s == IF d < 0 THEN 0 - 1 ELSE 1
      g == GCD(Abs(n), Abs(d))
  IN  <<(s * n) \div g, (s * d) \div g>>

R(n) == <<n, 1>>

\* a + b over the least common denominator
RAdd(a, b) ==
  IF a[2] = b[2]
  THEN IF a[2] = 1 THEN <<a[1] + b[1], 1>> ELSE Norm(a[1] + b[1], a[2])
  ELSE LET g == GCD(a[2], b[2])
       IN  Norm(a[1] * (b[2] \div g) + b[1] * (a[2] \div g), (a[2] \div g) * b[2])

RSub(a, b) == RAdd(a, <<0 - b[1], b[2]>>)

\* a * b of fractions in lowest terms, cancelling across the two fractions
\* before multiplying (the product is then in lowest terms)
RMul(a, b) ==
  IF a[2] = 1 /\ b[2] = 1 THEN <<a[1] * b[1], 1>>
  ELSE LET g == GCD(Abs(a[1]), b[2])
           h == GCD(Abs(b[1]), a[2])
       IN  <<(a[1] \div g) * (b[1] \div h), (a[2] \div h) * (b[2] \div g)>>

\* a / b for b # 0 (the callers decide the ZeroDivisionError case)
RDiv(a, b) ==
  RMul(a, IF b[1] < 0 THEN <<0 - b[2], 0 - b[1]>> ELSE <<b[2], b[1]>>)

RLt(a, b) == a[1] * b[2] < b[1] * a[2]

RLe(a, b) == a[1] * b[2] <= b[1] * a[2]

RAbs(a) == <<Abs(a[1]), a[2]>>

RMax(a, b) == IF RLe(b, a) THEN a ELSE b

RMin(a, b) == IF RLe(a, b) THEN a ELSE b

RECURSIVE RSum(_)
RSum(s) == IF Len(s) = 0 THEN R(0) ELSE RAdd(s[1], RSum(Tail(s)))

RECURSIVE Pow10(_)
Pow10(k) == IF k = 0 THEN 1 ELSE 10 * Pow10(k - 1)

\* long division: <<floor(n * 10^k / d), remainder>> from <<q, r>> = n divmod d
RECURSIVE LongDiv(_, _, _, _)
LongDiv(q, r, d, k) ==
  IF k = 0 THEN <<q, r>>
  ELSE LongDiv(q * 10 + ((r * 10) \div d), (r * 10) % d, d, k - 1)

\* round(x, nd): nearest multiple of 10^-nd, ties to the even one
Round(x, nd) ==
  LET n  == Abs(x[1])
      d  == x[2]
      qr == LongDiv(n \div d, n % d, d, nd)
      q  == qr[1]
      r  == qr[2]
      up == IF 2 * r > d THEN 1 ELSE IF 2 * r = d THEN q % 2 ELSE 0
      m  == q + up
  IN  Norm(IF x[1] < 0 THEN 0 - m ELSE m, Pow10(nd))

\* round(v, nd) if v is not None else None
RoundOpt(v, nd) == IF v = None THEN None ELSE Round(v, nd)

\* d is a power of two: n / d in lowest terms is then a binary fraction
RECURSIVE IsPowerOfTwo(_)
IsPowerOfTwo(d) == d = 1 \/ (d % 2 = 0 /\ IsPowerOfTwo(d \div 2))

\* round(x, nd) of a float x >= 0 computed with binary rounding error.  A
\* decimal tie that is not a binary fraction is not the float the
\* computation produced: that float lies just above the tie (above = TRUE)
\* or just below it, and round() follows it.  Every other value rounds as
\* in Round.
RoundComputed(x, nd, above) ==
  LET n  == x[1]
      d  == x[2]
      qr == LongDiv(n \div d, n % d, d, nd)
  IN  IF 2 * qr[2] = d /\ ~IsPowerOfTwo(d)
      THEN Norm(qr[1] + (IF above THEN 1 ELSE 0), Pow10(nd))
      ELSE Round(x, nd)

\* round(x, nd) of one emitted field: "even" takes the float arithmetic as
\* exact, "above" and "below" say on which side of a decimal tie the computed
\* float lies
RoundAt(x, nd, tie) ==
  IF tie = "even" THEN Round(x, nd) ELSE RoundComputed(x, nd, tie = "above")

(***************************************************************************)
(* Python list operations.                                                 *)
(***************************************************************************)
\* s[a:b] with Python's clamping of negative and oversized bounds
PySlice(s, a, b) ==
  LET n  == Len(s)
      lo == IF a < 0 THEN Max2(0, n + a) ELSE Min2(a, n)
      hi == IF b < 0 THEN Max2(0, n + b) ELSE Min2(b, n)
  IN  IF lo < hi THEN SubSeq(s, lo + 1, hi) ELSE <<>>

\* range(a, b) as a sequence
Range(a, b) == IF a < b THEN [k \in 1..(b - a) |-> a + k - 1] ELSE <<>>

\* [x] * k
Repeat(x, k) == IF k > 0 THEN [j \in 1..k |-> x] ELSE <<>>

(***************************************************************************)
(* Outcomes.                                                               *)
(***************************************************************************)
Ok(recs) == [ok |-> TRUE, recs |-> recs, err |-> ""]

Err(e) == [ok |-> FALSE, recs |-> <<>>, err |-> e]

NoResult == [ok |-> TRUE, recs |-> <<>>, err |-> "none"]

\* Closes read from the newest bar to the oldest
ClosesNewestFirst(data) == [i \in 1..Len(data) |-> data[Len(data) + 1 - i].close]

Closes(data) == [i \in 1..Len(data) |-> data[i].close]

(***************************************************************************)
(* sma.py                                                                  *)
(***************************************************************************)
\* SmaWindow with the slice end off by one: closes[i - period + 1 : i]
SmaWindowOffByOne(closes, i, period) == PySlice(closes, i - period + 1, i)

\* the window closes[i - period + 1 : i + 1] of 0-based index i
SmaWindow(closes, i, period) == PySlice(closes, i - period + 1, i + 1)

sma_calculate(data, period) ==
  LET n      == Len(data)
      closes == Closes(data)
  IN  IF n < period THEN Ok([i \in 1..n |-> [sma |-> None]])
      ELSE IF period = 0 /\ n > 0 THEN Err("ZeroDivisionError")
      ELSE Ok([j \in 1..n |->
                 IF j - 1 < period - 1 THEN [sma |-> None]
                 ELSE [sma |-> Round(RDiv(RSum(SmaWindow(closes, j - 1, period)),
                                          R(period)), 8)]])

(***************************************************************************)
(* ema.py                                                                  *)
(***************************************************************************)
\* Multiplier with the smoothing constant 2.0 / period
MultiplierNoPlusOne(period) == RDiv(R(2), R(period))

\* multiplier = 2.0 / (period + 1)
Multiplier(period) == RDiv(R(2), R(period + 1))

\* one step of the recurrence: (value - prev) * multiplier + prev
EmaStep(value, prev, period) ==
  RAdd(RMul(RSub(value, prev), Multiplier(period)), prev)

\* the unrounded EMA at 0-based index i >= period - 1, seeded with the SMA
RECURSIVE EmaAt(_, _, _)
EmaAt(values, period, i) ==
  IF i = period - 1 THEN RDiv(RSum(PySlice(values, 0, period)), R(period))
  ELSE EmaStep(values[i + 1], EmaAt(values, period, i - 1), period)

ema_calculate(data, period) ==
  LET n      == Len(data)
      closes == Closes(data)
  IN  IF n < period THEN Ok([i \in 1..n |-> [ema |-> None]])
      ELSE IF period + 1 = 0 THEN Err("ZeroDivisionError")
      ELSE IF period = 0 THEN Err("ZeroDivisionError")
      ELSE Ok([j \in 1..n |->
                 IF j - 1 < period - 1 THEN [ema |-> None]
                 ELSE [ema |-> Round(EmaAt(closes, period, j - 1), 8)]])

(***************************************************************************)
(* rsi.py                                                                  *)
(***************************************************************************)
\* price_changes[k] = closes[k + 1] - closes[k]
PriceChanges(closes) ==
  [k \in 1..(Len(closes) - 1) |-> RSub(closes[k + 1], closes[k])]

\* max(0, change)
Gain(change) == RMax(R(0), change)

\* max(0, -change)
Loss(change) == RMax(R(0), RSub(R(0), change))

\* s[i] for a Python index i that is in range (negative counts from the end)
PyAt(s, i) == IF i < 0 THEN s[Len(s) + i + 1] ELSE s[i + 1]

\* WilderStep with the previous average weighted by n instead of n - 1
WilderStepFullWeight(avg, current, period) ==
  RDiv(RAdd(RMul(avg, R(period)), current), R(period))

\* Wilder's smoothing: (prev_avg * (n - 1) + current) / n
WilderStep(avg, current, period) ==
  RDiv(RAdd(RMul(avg, R(period - 1)), current), R(period))

\* RsiValue with the sign of the quotient term flipped: 100 + 100 / (1 + rs)
RsiValueSignSlip(avg_gain, avg_loss) ==
  IF avg_loss[1] = 0 THEN R(100)
  ELSE RAdd(R(100), RDiv(R(100), RAdd(R(1), RDiv(avg_gain, avg_loss))))

\* 100 when avg_loss == 0, else 100 - 100 / (1 + avg_gain / avg_loss)
RsiValue(avg_gain, avg_loss) ==
  IF avg_loss[1] = 0 THEN R(100)
  ELSE RSub(R(100), RDiv(R(100), RAdd(R(1), RDiv(avg_gain, avg_loss))))

\* <<avg_gain, avg_loss>> after k iterations of the smoothing loop, whose
\* k-th iteration reads price_changes[period + k - 1]
RECURSIVE RsiAvgs(_, _, _)
RsiAvgs(changes, period, k) ==
  IF k = 0
  THEN LET first == PySlice(changes, 0, period)
       IN  <<RDiv(RSum([j \in 1..Len(first) |-> Gain(first[j])]), R(period)),
             RDiv(RSum([j \in 1..Len(first) |-> Loss(first[j])]), R(period))>>
  ELSE LET prev == RsiAvgs(changes, period, k - 1)
           cur  == PyAt(changes, period + k - 1)
       IN  <<WilderStep(prev[1], Gain(cur), period),
             WilderStep(prev[2], Loss(cur), period)>>

\* the number of leading None records of rsi: range(period)
RsiWarmup(period) == period

rsi_calculate(data, period) ==
  LET n       == Len(data)
      changes == PriceChanges(Closes(data))
      steps   == Len(Range(period, Len(changes)))
  IN  IF n < period + 1 THEN Ok([i \in 1..n |-> [rsi |-> None]])
      ELSE IF period = 0 THEN Err("ZeroDivisionError")
      ELSE IF steps > 0 /\ period < 0 /\ Len(changes) + period < 0
           THEN Err("IndexError")
      ELSE Ok(Repeat([rsi |-> None], RsiWarmup(period)) \o
              [k \in 1..(steps + 1) |->
                 LET a == RsiAvgs(changes, period, k - 1)
                 IN  [rsi |-> Round(RsiValue(a[1], a[2]), 2)]])

(***************************************************************************)
(* macd.py                                                                 *)
(***************************************************************************)
\* the inner ema(values, period) raises when it divides by zero
EmaRaises(values, period) ==
  /\ ~(Len(values) < period)
  /\ (period + 1 = 0 \/ period = 0)

\* the inner ema(values, period): unrounded, None before index period - 1
EmaList(values, period) ==
  IF Len(values) < period THEN Repeat(None, Len(values))
  ELSE Repeat(None, period - 1) \o
       [k \in 1..(Len(values) - period + 1) |-> EmaAt(values, period, period + k - 2)]

\* MacdLine with the operands of the difference swapped
MacdLineSlowMinusFast(closes, fast_period, slow_period) ==
  LET fast_ema == EmaList(closes, fast_period)
      slow_ema == EmaList(closes, slow_period)
  IN  [i \in 1..Len(closes) |->
         IF fast_ema[i] # None /\ slow_ema[i] # None
         THEN RSub(slow_ema[i], fast_ema[i]) ELSE None]

\* fast EMA - slow EMA where both are available
MacdLine(closes, fast_period, slow_period) ==
  LET fast_ema == EmaList(closes, fast_period)
      slow_ema == EmaList(closes, slow_period)
  IN  [i \in 1..Len(closes) |->
         IF fast_ema[i] # None /\ slow_ema[i] # None
         THEN RSub(fast_ema[i], slow_ema[i]) ELSE None]

IsAvailable(v) == v # None

ValidMacd(macd_line) == SelectSeq(macd_line, IsAvailable)

\* signal_idx = valid_idx - (signal_period - 1)
SignalIdx(valid_idx, signal_period) == valid_idx - (signal_period - 1)

\* the signal value mapped back to 1-based position i of macd_line
SignalAt(macd_line, signal_ema_values, i, signal_period) ==
  IF macd_line[i] = None THEN None
  ELSE LET valid_idx  == Len(ValidMacd(SubSeq(macd_line, 1, i - 1)))
           signal_idx == SignalIdx(valid_idx, signal_period)
       IN  IF signal_idx >= 0 /\ signal_idx < Len(signal_ema_values)
           THEN signal_ema_values[signal_idx + 1] ELSE None

SignalLine(macd_line, signal_period) ==
  IF Len(ValidMacd(macd_line)) < signal_period THEN Repeat(None, Len(macd_line))
  ELSE LET signal_ema_values == EmaList(ValidMacd(macd_line), signal_period)
       IN  [i \in 1..Len(macd_line) |->
              SignalAt(macd_line, signal_ema_values, i, signal_period)]

\* MacdMinBars without the signal period
MacdMinBarsSlowOnly(slow_period, signal_period) == slow_period

\* the fewest bars macd computes on: slow_period + signal_period
MacdMinBars(slow_period, signal_period) == slow_period + signal_period

macd_calculate(data, fast_period, slow_period, signal_period) ==
  LET n         == Len(data)
      closes    == Closes(data)
      macd_line == MacdLine(closes, fast_period, slow_period)
      signal    == SignalLine(macd_line, signal_period)
  IN  IF n < MacdMinBars(slow_period, signal_period)
      THEN Ok([i \in 1..n |-> [macd |-> None, signal |-> None, histogram |-> None]])
      ELSE IF EmaRaises(closes, fast_period) \/ EmaRaises(closes, slow_period)
           THEN Err("ZeroDivisionError")
      ELSE IF /\ ~(Len(ValidMacd(macd_line)) < signal_period)
              /\ EmaRaises(ValidMacd(macd_line), signal_period)
           THEN Err("ZeroDivisionError")
      ELSE Ok([i \in 1..n |->
                 LET histogram == IF macd_line[i] # None /\ signal[i] # None
                                  THEN RSub(macd_line[i], signal[i]) ELSE None
                 IN  [macd      |-> RoundOpt(macd_line[i], 8),
                      signal    |-> RoundOpt(signal[i], 8),
                      histogram |-> RoundOpt(histogram, 8)]])

(***************************************************************************)
(* bollinger.py                                                            *)
(***************************************************************************)
\* floor(sqrt(m)) by bisection, lo * lo <= m < hi * hi
RECURSIVE IsqrtB(_, _, _)
IsqrtB(m, lo, hi) ==
  IF hi - lo <= 1 THEN lo
  ELSE LET mid == (lo + hi) \div 2
       IN  IF mid * mid <= m THEN IsqrtB(m, mid, hi) ELSE IsqrtB(m, lo, mid)

\* math.sqrt of a rational x >= 0, rounded down to a multiple of
\* 1 / (1000 * den): sqrt(n / d) = sqrt(n * d) / d
Sqrt(x) ==
  LET m == x[1] * x[2] * 1000000
  IN  Norm(IsqrtB(m, 0, Min2(m + 1, 46341)), x[2] * 1000)

\* statistics.stdev(window): sample standard deviation, len(window) >= 2
Stdev(window) ==
  LET k    == Len(window)
      mean == RDiv(RSum(window), R(k))
      ss   == RSum([j \in 1..k |-> RMul(RSub(window[j], mean), RSub(window[j], mean))])
  IN  Sqrt(RDiv(ss, R(k - 1)))

\* statistics.stdev raises StatisticsError on fewer than two data points
StdevRaises(window) == Len(window) < 2

BollingerRecord(window, period, std_mult) ==
  LET sma == RDiv(RSum(window), R(period))
      std == Stdev(window)
  IN  [bb_upper  |-> Round(RAdd(sma, RMul(R(std_mult), std)), 8),
       bb_middle |-> Round(sma, 8),
       bb_lower  |-> Round(RSub(sma, RMul(R(std_mult), std)), 8)]

BollingerNone == [bb_upper |-> None, bb_middle |-> None, bb_lower |-> None]

bollinger_calculate(data, period, std_mult) ==
  LET n      == Len(data)
      closes == Closes(data)
      first  == Max2(period - 1, 0)
  IN  IF n < period THEN Ok([i \in 1..n |-> BollingerNone])
      ELSE IF n > 0 /\ period = 0 THEN Err("ZeroDivisionError")
      ELSE IF n > 0 /\ StdevRaises(SmaWindow(closes, first, period))
           THEN Err("StatisticsError")
      ELSE Ok([j \in 1..n |->
                 IF j - 1 < period - 1 THEN BollingerNone
                 ELSE BollingerRecord(SmaWindow(closes, j - 1, period), period, std_mult)])

(***************************************************************************)
(* atr.py                                                                  *)
(***************************************************************************)
\* TrueRange with the first bar's range taken as its high
TrueRangeSeedHigh(data, i) ==
  IF i = 0 THEN data[1].high
  ELSE LET high_low        == RSub(data[i + 1].high, data[i + 1].low)
           high_prev_close == RAbs(RSub(data[i + 1].high, data[i].close))
           low_prev_close  == RAbs(RSub(data[i + 1].low, data[i].close))
       IN  RMax(high_low, RMax(high_prev_close, low_prev_close))

\* TrueRange without the gap to the previous close: high - low on every bar
TrueRangeNoGap(data, i) == RSub(data[i + 1].high, data[i + 1].low)

\* true range of the bar at 0-based index i
TrueRange(data, i) ==
  IF i = 0 THEN RSub(data[1].high, data[1].low)
  ELSE LET high_low        == RSub(data[i + 1].high, data[i + 1].low)
           high_prev_close == RAbs(RSub(data[i + 1].high, data[i].close))
           low_prev_close  == RAbs(RSub(data[i + 1].low, data[i].close))
       IN  RMax(high_low, RMax(high_prev_close, low_prev_close))

\* TrueRanges without the gap to the previous close: high - low on every bar
TrueRangesHighLow(data) ==
  [j \in 1..Len(data) |-> RSub(data[j].high, data[j].low)]

TrueRanges(data) == [j \in 1..Len(data) |-> TrueRange(data, j - 1)]

\* AtrWarmup with the seed one bar later: range(period)
AtrWarmupLate(period) == period

\* the number of leading None records of atr: range(period - 1)
AtrWarmup(period) == period - 1

atr_calculate(data, period) ==
  LET n           == Len(data)
      true_ranges == TrueRanges(data)
  IN  IF n < period + 1 THEN Ok([i \in 1..n |-> [atr |-> None]])
      ELSE IF period + 1 = 0 THEN Err("ZeroDivisionError")
      ELSE IF period = 0 THEN Err("ZeroDivisionError")
      ELSE Ok(Repeat([atr |-> None], AtrWarmup(period)) \o
              [k \in 1..(n - period + 1) |->
                 [atr |-> Round(EmaAt(true_ranges, period, period + k - 2), 8)]])

(***************************************************************************)
(* adx.py                                                                  *)
(***************************************************************************)
\* up_move and down_move of the bar at 0-based index i >= 1
UpMove(data, i) == RSub(data[i + 1].high, data[i].high)

DownMove(data, i) == RSub(data[i].low, data[i + 1].low)

PlusDM(data, i) ==
  IF i = 0 THEN R(0)
  ELSE IF RLt(DownMove(data, i), UpMove(data, i)) /\ RLt(R(0), UpMove(data, i))
       THEN UpMove(data, i) ELSE R(0)

MinusDM(data, i) ==
  IF i = 0 THEN R(0)
  ELSE IF RLt(UpMove(data, i), DownMove(data, i)) /\ RLt(R(0), DownMove(data, i))
       THEN DownMove(data, i) ELSE R(0)

\* Wilder-smoothed series at 0-based index i >= period - 1: the sum of the
\* first period values, then (prev * (period - 1) + current) / period
RECURSIVE Smoothed(_, _, _)
Smoothed(values, period, i) ==
  IF i = period - 1 THEN RSum(PySlice(values, 0, period))
  ELSE WilderStep(Smoothed(values, period, i - 1), values[i + 1], period)

\* DI with 100.0 as the value on a zero smoothed TR
DIFallbackHundred(smoothed_dm, smoothed_tr) ==
  IF smoothed_tr[1] = 0 THEN R(100)
  ELSE RMul(RDiv(smoothed_dm, smoothed_tr), R(100))

\* 0.0 when smoothed TR is 0, else smoothed DM / smoothed TR * 100
DI(smoothed_dm, smoothed_tr) ==
  IF smoothed_tr[1] = 0 THEN R(0)
  ELSE RMul(RDiv(smoothed_dm, smoothed_tr), R(100))

\* 0.0 when DI+ + DI- is 0, else |DI+ - DI-| / (DI+ + DI-) * 100
DX(di_plus, di_minus) ==
  LET di_sum == RAdd(di_plus, di_minus)
  IN  IF di_sum[1] = 0 THEN R(0)
      ELSE RMul(RDiv(RAbs(RSub(di_plus, di_minus)), di_sum), R(100))

DiPlusValues(data, period) ==
  LET n  == Len(data)
      tr == TrueRanges(data)
      dm == [j \in 1..n |-> PlusDM(data, j - 1)]
  IN  [j \in 1..n |-> IF j - 1 < period - 1 THEN None
                      ELSE DI(Smoothed(dm, period, j - 1), Smoothed(tr, period, j - 1))]

DiMinusValues(data, period) ==
  LET n  == Len(data)
      tr == TrueRanges(data)
      dm == [j \in 1..n |-> MinusDM(data, j - 1)]
  IN  [j \in 1..n |-> IF j - 1 < period - 1 THEN None
                      ELSE DI(Smoothed(dm, period, j - 1), Smoothed(tr, period, j - 1))]

DxValues(di_plus_values, di_minus_values) ==
  [j \in 1..Len(di_plus_values) |->
     IF di_plus_values[j] = None THEN None
     ELSE DX(di_plus_values[j], di_minus_values[j])]

\* dx_values[valid_dx_start : valid_dx_start + period] without its None entries
FirstDxWindow(dx_values, period) ==
  SelectSeq(PySlice(dx_values, period - 1, period - 1 + period), IsAvailable)

\* AdxAt seeded with the first DX value alone instead of the window's mean
RECURSIVE AdxAtSeedFirstDx(_, _, _)
AdxAtSeedFirstDx(dx_values, period, i) ==
  IF i = period - 1 THEN dx_values[period]
  ELSE EmaStep(dx_values[i + 1], AdxAtSeedFirstDx(dx_values, period, i - 1), period)

\* the unrounded ADX at 0-based index i >= period - 1
RECURSIVE AdxAt(_, _, _)
AdxAt(dx_values, period, i) ==
  IF i = period - 1 THEN RDiv(RSum(FirstDxWindow(dx_values, period)), R(period))
  ELSE EmaStep(dx_values[i + 1], AdxAt(dx_values, period, i - 1), period)

AdxNone == [adx |-> None, di_plus |-> None, di_minus |-> None]

\* period >= 1 below the error cases.  With period = 0 the first smoothing
\* step divides by period; with period = -1 true_ranges[-1] is out of range
\* for an empty list and multiplier = 2.0 / (period + 1) divides by zero
\* otherwise.
AdxRecords(data, period, ties) ==
  LET n         == Len(data)
      di_plus   == DiPlusValues(data, period)
      di_minus  == DiMinusValues(data, period)
      dx_values == DxValues(di_plus, di_minus)
  IN  IF n < period + 1 THEN Ok([i \in 1..n |-> AdxNone])
      ELSE IF period = 0 THEN Err("ZeroDivisionError")
      ELSE IF period + 1 = 0
           THEN (IF n = 0 THEN Err("IndexError") ELSE Err("ZeroDivisionError"))
      ELSE IF Len(FirstDxWindow(dx_values, period)) < period
           THEN Ok([i \in 1..n |-> AdxNone])
      ELSE Ok([j \in 1..n |->
                 IF j - 1 < period - 1 THEN AdxNone
                 ELSE [adx      |-> RoundAt(AdxAt(dx_values, period, j - 1), 2, ties.adx),
                       di_plus  |-> RoundAt(di_plus[j], 2, ties.di_plus),
                       di_minus |-> RoundAt(di_minus[j], 2, ties.di_minus)]])

\* calculate with float arithmetic taken as exact
adx_calculate(data, period) ==
  AdxRecords(data, period, [adx |-> "even", di_plus |-> "even", di_minus |-> "even"])

\* calculate with the rounding error of float arithmetic at decimal ties
adx_calculate_computed(data, period, ties) == AdxRecords(data, period, ties)

(***************************************************************************)
(* stochastic.py                                                           *)
(***************************************************************************)
RECURSIVE SeqMax(_)
SeqMax(s) == IF Len(s) = 1 THEN s[1] ELSE RMax(s[1], SeqMax(Tail(s)))

RECURSIVE SeqMin(_)
SeqMin(s) == IF Len(s) = 1 THEN s[1] ELSE RMin(s[1], SeqMin(Tail(s)))

\* StochK measured from the window's highest high instead of its lowest low
StochKFromHigh(data, i, k_period) ==
  LET window       == PySlice(data, i - k_period + 1, i + 1)
      highest_high == SeqMax([j \in 1..Len(window) |-> window[j].high])
      lowest_low   == SeqMin([j \in 1..Len(window) |-> window[j].low])
  IN  IF highest_high = lowest_low THEN R(50)
      ELSE RMul(RDiv(RSub(data[i + 1].close, highest_high),
                     RSub(highest_high, lowest_low)), R(100))

\* %K of the bar at 0-based index i >= k_period - 1 (50.0 on a zero range)
StochK(data, i, k_period) ==
  LET window       == PySlice(data, i - k_period + 1, i + 1)
      highest_high == SeqMax([j \in 1..Len(window) |-> window[j].high])
      lowest_low   == SeqMin([j \in 1..Len(window) |-> window[j].low])
  IN  IF highest_high = lowest_low THEN R(50)
      ELSE RMul(RDiv(RSub(data[i + 1].close, lowest_low),
                     RSub(highest_high, lowest_low)), R(100))

\* the non-None entries of stoch_k_values after the bar at 0-based index i
ValidK(data, i, k_period) ==
  [j \in 1..(i - (k_period - 1) + 1) |-> StochK(data, k_period - 1 + j - 1, k_period)]

\* StochD with the guard written as != instead of <
StochDExactCount(data, i, k_period, d_period) ==
  LET valid == ValidK(data, i, k_period)
  IN  IF Len(valid) # d_period THEN None
      ELSE RDiv(RSum(PySlice(valid, 0 - d_period, Len(valid))), R(d_period))

\* %D at 0-based index i: None until d_period %K values exist, then the mean
\* of the last d_period of them ([-d_period:])
StochD(data, i, k_period, d_period) ==
  LET valid == ValidK(data, i, k_period)
  IN  IF Len(valid) < d_period THEN None
      ELSE RDiv(RSum(PySlice(valid, 0 - d_period, Len(valid))), R(d_period))

StochNone == [stoch_k |-> None, stoch_d |-> None]

\* max() of an empty window (k_period <= 0) raises ValueError; the mean over
\* d_period = 0 divides by zero
stochastic_calculate(data, k_period, d_period) ==
  LET n == Len(data)
  IN  IF n < k_period + d_period - 1 THEN Ok([i \in 1..n |-> StochNone])
      ELSE IF n > 0 /\ k_period <= 0 THEN Err("ValueError")
      ELSE IF n >= k_period /\ n > 0 /\ d_period = 0 THEN Err("ZeroDivisionError")
      ELSE Ok([j \in 1..n |->
                 IF j - 1 < k_period - 1 THEN StochNone
                 ELSE [stoch_k |-> Round(StochK(data, j - 1, k_period), 2),
                       stoch_d |-> RoundOpt(StochD(data, j - 1, k_period, d_period), 2)]])

(***************************************************************************)
(* obv.py                                                                  *)
(***************************************************************************)
\* ObvAfter with the first bar leaving the total at 0
RECURSIVE ObvAfterSeedZero(_, _)
ObvAfterSeedZero(data, i) ==
  IF i < 0 THEN R(0)
  ELSE LET prev   == ObvAfterSeedZero(data, i - 1)
           candle == data[i + 1]
       IN  IF candle.volume = None THEN prev
           ELSE IF i = 0 THEN R(0)
           ELSE IF RLt(data[i].close, candle.close) THEN RAdd(prev, candle.volume)
           ELSE IF RLt(candle.close, data[i].close) THEN RSub(prev, candle.volume)
           ELSE prev

\* ObvAfter with a missing-volume bar resetting the total to 0
RECURSIVE ObvAfterResetOnMissing(_, _)
ObvAfterResetOnMissing(data, i) ==
  IF i < 0 THEN R(0)
  ELSE LET prev   == ObvAfterResetOnMissing(data, i - 1)
           candle == data[i + 1]
       IN  IF candle.volume = None THEN R(0)
           ELSE IF i = 0 THEN candle.volume
           ELSE IF RLt(data[i].close, candle.close) THEN RAdd(prev, candle.volume)
           ELSE IF RLt(candle.close, data[i].close) THEN RSub(prev, candle.volume)
           ELSE prev

\* the running total obv after the iteration of 0-based index i (-1: before)
RECURSIVE ObvAfter(_, _)
ObvAfter(data, i) ==
  IF i < 0 THEN R(0)
  ELSE LET prev   == ObvAfter(data, i - 1)
           candle == data[i + 1]
       IN  IF candle.volume = None THEN prev
           ELSE IF i = 0 THEN candle.volume
           ELSE IF RLt(data[i].close, candle.close) THEN RAdd(prev, candle.volume)
           ELSE IF RLt(candle.close, data[i].close) THEN RSub(prev, candle.volume)
           ELSE prev

obv_calculate(data) ==
  Ok([j \in 1..Len(data) |->
        IF data[j].volume = None THEN [obv |-> None]
        ELSE [obv |-> Round(ObvAfter(data, j - 1), 2)]])

(***************************************************************************)
(* vwap.py                                                                 *)
(***************************************************************************)
\* volume is None or volume == 0
NoVolume(candle) == candle.volume = None \/ candle.volume = R(0)

\* TypicalPrice without the division by 3.0
TypicalPriceSum(candle) == RAdd(RAdd(candle.high, candle.low), candle.close)

\* (high + low + close) / 3.0
TypicalPrice(candle) ==
  RDiv(RAdd(RAdd(candle.high, candle.low), candle.close), R(3))

\* VwapCum with a bar without volume resetting both cumulative sums to 0
RECURSIVE VwapCumResetOnGap(_, _)
VwapCumResetOnGap(data, i) ==
  IF i < 0 THEN <<R(0), R(0)>>
  ELSE LET prev   == VwapCumResetOnGap(data, i - 1)
           candle == data[i + 1]
       IN  IF NoVolume(candle) THEN <<R(0), R(0)>>
           ELSE <<RAdd(prev[1], RMul(TypicalPrice(candle), candle.volume)),
                  RAdd(prev[2], candle.volume)>>

\* <<cumulative_price_volume, cumulative_volume>> after 0-based index i
RECURSIVE VwapCum(_, _)
VwapCum(data, i) ==
  IF i < 0 THEN <<R(0), R(0)>>
  ELSE LET prev   == VwapCum(data, i - 1)
           candle == data[i + 1]
       IN  IF NoVolume(candle) THEN prev
           ELSE <<RAdd(prev[1], RMul(TypicalPrice(candle), candle.volume)),
                  RAdd(prev[2], candle.volume)>>

vwap_calculate(data) ==
  Ok([j \in 1..Len(data) |->
        IF NoVolume(data[j]) THEN [vwap |-> None]
        ELSE LET cum == VwapCum(data, j - 1)
             IN  [vwap |-> Round(RDiv(cum[1], cum[2]), 8)]])

(***************************************************************************)
(* The state machine: a caller holds a sequence of bars and calls the      *)
(* indicator functions on it, one call at a time.                          *)
(***************************************************************************)
\* Bars with a high/low/close shape, volume present.
ShapedBars ==
  {b \in [high : {R(1), R(2)}, low : {R(1), R(2)}, close : {R(1), R(2)},
           volume : {R(1)}] :
     RLe(b.low, b.close) /\ RLe(b.close, b.high)}

\* Flat bars (open = high = low = close) over three price levels.
FlatBars ==
  {[high |-> R(p), low |-> R(p), close |-> R(p), volume |-> R(1)] : p \in 1..3}

\* Flat bars whose volume is missing, zero or positive, and one bar at
\* another price.
VolumeBars ==
  {[high |-> R(1), low |-> R(1), close |-> R(1), volume |-> v] :
     v \in {None, R(0), R(1)}}
    \cup {[high |-> R(2), low |-> R(2), close |-> R(2), volume |-> R(1)]}

\* Flat bars whose price and volume are not multiples of 10^-8: thirds.
FineBars ==
  {[high |-> Norm(p, 3), low |-> Norm(p, 3), close |-> Norm(p, 3),
    volume |-> Norm(1, 3)] : p \in 1..2}

SeqsOver(S) == UNION {[1..n -> S] : n \in 0..MaxLen}

\* the input sequences: every bar satisfies low <= close <= high, volume >= 0
BarSeqs ==
  SeqsOver(ShapedBars) \cup SeqsOver(FlatBars) \cup SeqsOver(VolumeBars)
    \cup SeqsOver(FineBars)

\* std_mult of a well-formed call
Mults == {1, 2}

\* the period parameters of a well-formed call
ValidPeriods == 1..MaxPeriod

\* the non-positive period parameters of a malformed call: 0 and -1
BadPeriods == {0 - 1, 0}

Periods == BadPeriods \cup ValidPeriods

NoCall == [fn |-> "none", args |-> <<>>]

\* the ohlcv_data table after create_tables: no rows
NoRows == {}

NoMemo == [kept |-> FALSE, bars |-> <<>>, call |-> NoCall, result |-> NoResult]

Init ==
  /\ bars \in BarSeqs
  /\ pc = "ready"
  /\ call = NoCall
  /\ result = NoResult
  /\ memo = NoMemo
  /\ store = NoRows

\* Invoke with the call removing the first bar of its input list
InvokeConsumingInput(fn, args, out) ==
  /\ pc = "ready"
  /\ pc' = "done"
  /\ call' = [fn |-> fn, args |-> args]
  /\ result' = out
  /\ bars' = IF bars = <<>> THEN bars ELSE Tail(bars)
  /\ UNCHANGED <<memo, store>>

\* a call of calculate: the outcome is that of the function on the input as
\* it is now, and the input list is not written
Invoke(fn, args, out) ==
  /\ pc = "ready"
  /\ pc' = "done"
  /\ call' = [fn |-> fn, args |-> args]
  /\ result' = out
  /\ UNCHANGED <<bars, memo, store>>

CallSMA == \E p \in ValidPeriods : Invoke("sma", <<p>>, sma_calculate(bars, p))

CallEMA == \E p \in ValidPeriods : Invoke("ema", <<p>>, ema_calculate(bars, p))

CallRSI == \E p \in ValidPeriods : Invoke("rsi", <<p>>, rsi_calculate(bars, p))

CallMACD ==
  \E f \in ValidPeriods, sl \in ValidPeriods, sg \in ValidPeriods :
    Invoke("macd", <<f, sl, sg>>, macd_calculate(bars, f, sl, sg))

CallBollinger ==
  \E p \in ValidPeriods, m \in Mults :
    Invoke("bollinger", <<p, m>>, bollinger_calculate(bars, p, m))

CallATR == \E p \in ValidPeriods : Invoke("atr", <<p>>, atr_calculate(bars, p))

CallADX == \E p \in ValidPeriods : Invoke("adx", <<p>>, adx_calculate(bars, p))

CallStochastic ==
  \E k \in ValidPeriods, d \in ValidPeriods :
    Invoke("stochastic", <<k, d>>, stochastic_calculate(bars, k, d))

CallOBV == Invoke("obv", <<>>, obv_calculate(bars))

CallVWAP == Invoke("vwap", <<>>, vwap_calculate(bars))

\* the caller consumes the result and is ready for the next call
Return ==
  /\ pc = "done"
  /\ pc' = "ready"
  /\ call' = NoCall
  /\ result' = NoResult
  /\ UNCHANGED <<bars, memo, store>>

Next ==
  \/ CallSMA
  \/ CallEMA
  \/ CallRSI
  \/ CallMACD
  \/ CallBollinger
  \/ CallATR
  \/ CallADX
  \/ CallStochastic
  \/ CallOBV
  \/ CallVWAP
  \/ Return

Spec == Init /\ [][Next]_vars

(***************************************************************************)
(* Malformed calls: the same caller passing a zero or negative period to   *)
(* the period-taking functions.                                            *)
(***************************************************************************)
\* some parameter of the call is zero or negative
HasBadPeriod(args) == \E k \in 1..Len(args) : args[k] <= 0

BadSMA == \E p \in BadPeriods : Invoke("sma", <<p>>, sma_calculate(bars, p))

BadEMA == \E p \in BadPeriods : Invoke("ema", <<p>>, ema_calculate(bars, p))

BadRSI == \E p \in BadPeriods : Invoke("rsi", <<p>>, rsi_calculate(bars, p))

BadMACD ==
  \E f \in Periods, sl \in Periods, sg \in Periods :
    /\ HasBadPeriod(<<f, sl, sg>>)
    /\ Invoke("macd", <<f, sl, sg>>, macd_calculate(bars, f, sl, sg))

BadBollinger ==
  \E p \in BadPeriods, m \in Mults :
    Invoke("bollinger", <<p, m>>, bollinger_calculate(bars, p, m))

BadATR == \E p \in BadPeriods : Invoke("atr", <<p>>, atr_calculate(bars, p))

BadADX == \E p \in BadPeriods : Invoke("adx", <<p>>, adx_calculate(bars, p))

BadStochastic ==
  \E k \in Periods, d \in Periods :
    /\ HasBadPeriod(<<k, d>>)
    /\ Invoke("stochastic", <<k, d>>, stochastic_calculate(bars, k, d))

NextBad ==
  \/ BadSMA
  \/ BadEMA
  \/ BadRSI
  \/ BadMACD
  \/ BadBollinger
  \/ BadATR
  \/ BadADX
  \/ BadStochastic
  \/ Return

SpecBadParam == Init /\ [][NextBad]_vars

(***************************************************************************)
(* Repeated calls: the caller keeps the outcome of one call, makes any      *)
(* number of other calls and compares a later call with the kept one.      *)
(***************************************************************************)
\* the input sequences of the repeated-call runs
RepeatSeqs == SeqsOver(FineBars)

InitRepeat ==
  /\ bars \in RepeatSeqs
  /\ pc = "ready"
  /\ call = NoCall
  /\ result = NoResult
  /\ memo = NoMemo
  /\ store = NoRows

\* the caller keeps the input, the call and its outcome, once
Keep ==
  /\ pc = "done"
  /\ ~memo.kept
  /\ memo' = [kept |-> TRUE, bars |-> bars, call |-> call, result |-> result]
  /\ pc' = "ready"
  /\ call' = NoCall
  /\ result' = NoResult
  /\ UNCHANGED <<bars, store>>

NextRepeat ==
  \/ CallSMA
  \/ CallEMA
  \/ CallRSI
  \/ CallMACD
  \/ CallBollinger
  \/ CallATR
  \/ CallADX
  \/ CallStochastic
  \/ CallOBV
  \/ CallVWAP
  \/ Return
  \/ Keep

SpecRepeat == InitRepeat /\ [][NextRepeat]_vars

(***************************************************************************)
(* pull_ohlcv.py: validate_ohlcv and the kline loop of fetch_ohlcv_binance. *)
(* A price here is any float, NaN included; bars carry open as well.       *)
(***************************************************************************)
\* float("nan"): the pair with denominator 0
NaN == <<0, 0>>

\* a < b on floats: False when either side is NaN
FLt(a, b) == a # NaN /\ b # NaN /\ RLt(a, b)

\* a <= b on floats: False when either side is NaN
FLe(a, b) == a # NaN /\ b # NaN /\ RLe(a, b)

\* max(a, b): the first argument unless the second compares greater
PyMax(a, b) == IF FLt(a, b) THEN b ELSE a

\* min(a, b): the first argument unless the second compares smaller
PyMin(a, b) == IF FLt(b, a) THEN b ELSE a

\* returns None, or raises ValueError at the first failing test
validate_ohlcv(dp) ==
  IF FLt(dp.high, dp.low) THEN Err("ValueError")
  ELSE IF FLt(dp.high, PyMax(dp.open, dp.close)) THEN Err("ValueError")
  ELSE IF FLt(PyMin(dp.open, dp.close), dp.low) THEN Err("ValueError")
  ELSE IF FLe(dp.open, R(0)) \/ FLe(dp.close, R(0)) THEN Err("ValueError")
  ELSE Ok(<<>>)

\* the bars appended before the kline at 1-based position k is reached, or
\* the exit: an exception of the loop ends the process with sys.exit(1)
RECURSIVE FetchLoop(_, _)
FetchLoop(klines, k) ==
  IF k > Len(klines) THEN Ok(klines)
  ELSE IF ~validate_ohlcv(klines[k]).ok THEN Err("SystemExit")
  ELSE FetchLoop(klines, k + 1)

\* fetch_ohlcv_binance from the klines the client returned: no klines exits
fetch_ohlcv_binance(klines) ==
  IF Len(klines) = 0 THEN Err("SystemExit") ELSE FetchLoop(klines, 1)

\* the float values of a kline field
RawPrices == {NaN, R(0), R(1), R(2)}

\* the bars built from one kline: float(kline[1..5])
RawBars ==
  [open : RawPrices, high : RawPrices, low : RawPrices, close : RawPrices,
   volume : {R(1)}]

\* the number of klines of a response
KlineCounts == {0, 1, 2}

KlineSeqs == UNION {[1..n -> RawBars] : n \in KlineCounts}

InitValidate ==
  /\ bars \in KlineSeqs
  /\ pc = "ready"
  /\ call = NoCall
  /\ result = NoResult
  /\ memo = NoMemo
  /\ store = NoRows

CallValidate ==
  \E i \in 1..Len(bars) :
    Invoke("validate_ohlcv", <<i>>, validate_ohlcv(bars[i]))

CallFetch == Invoke("fetch_ohlcv_binance", <<>>, fetch_ohlcv_binance(bars))

NextValidate ==
  \/ CallValidate
  \/ CallFetch
  \/ Return

SpecValidate == InitValidate /\ [][NextValidate]_vars

(***************************************************************************)
(* MACD on longer series: the same caller with flat bars and one bar more  *)
(* than MaxLen, so that slow_period + signal_period bars are present for   *)
(* every signal_period of ValidPeriods.                                    *)
(***************************************************************************)
LongLen == MaxLen + 1

LongSeqs == UNION {[1..n -> FlatBars] : n \in 0..LongLen}

InitLong ==
  /\ bars \in LongSeqs
  /\ pc = "ready"
  /\ call = NoCall
  /\ result = NoResult
  /\ memo = NoMemo
  /\ store = NoRows

NextLong ==
  \/ CallMACD
  \/ Return

SpecLongSeries == InitLong /\ [][NextLong]_vars

(***************************************************************************)
(* ADX with float rounding error: the same caller with bars whose          *)
(* directional indicators fall on decimal ties (4000, 4001, 2 give         *)
(* DI+ = 0.025 and DI- = 99.975), next to the shaped bars.                 *)
(***************************************************************************)
TiePrices == {2, 4000, 4001}

TieBars ==
  {[high |-> R(p), low |-> R(p), close |-> R(p), volume |-> R(1)] : p \in TiePrices}

\* one bar per tie price, in every order and with repetition, and the
\* sequences of shaped bars
TieSeqs == [1..Cardinality(TiePrices) -> TieBars] \cup SeqsOver(ShapedBars)

InitTies ==
  /\ bars \in TieSeqs
  /\ pc = "ready"
  /\ call = NoCall
  /\ result = NoResult
  /\ memo = NoMemo
  /\ store = NoRows

\* the fields of an ADX record
AdxFields == {"adx", "di_plus", "di_minus"}

CallADXComputed ==
  \E p \in ValidPeriods, ties \in [AdxFields -> {"above", "below"}] :
    Invoke("adx", <<p>>, adx_calculate_computed(bars, p, ties))

NextTies ==
  \/ CallADXComputed
  \/ Return

SpecFloatTies == InitTies /\ [][NextTies]_vars

(***************************************************************************)
(* src/src/database/manager.py: DatabaseManager.insert_ohlcv and           *)
(* insert_batch on the ohlcv_data table.  store is the set of committed    *)
(* rows; created_at and updated_at (wall-clock times) are left out of a    *)
(* row.  Another writer of the same database may commit a row between a    *)
(* call's query for a key and its commit: that is the call's race input.   *)
(* A session sees the committed rows and its own pending changes (the      *)
(* sessionmaker default flushes pending rows before each query).           *)
(***************************************************************************)
MaxBatch == 2

\* AssetClass.CRYPTO, and the plain string "crypto" in its place (a value
\* without .value)
EnumCrypto == [enum |-> TRUE, value |-> "crypto"]

PlainCrypto == [enum |-> FALSE, value |-> "crypto"]

\* OHLCVData objects: two timestamps, two sets of values
OhlcvObjects ==
  {[symbol |-> "BTCUSDT", asset_class |-> EnumCrypto, timestamp |-> t,
    open |-> R(p), high |-> R(p), low |-> R(p), close |-> R(p),
    volume |-> R(p), timeframe |-> "1day",
    source |-> (IF p = 1 THEN "binance" ELSE "massive"), metadata |-> None] :
     t \in 1..2, p \in 1..2}

\* an OHLCVData object built with asset_class = "crypto"
PlainObjects ==
  {[symbol |-> "BTCUSDT", asset_class |-> PlainCrypto, timestamp |-> 1,
    open |-> R(1), high |-> R(1), low |-> R(1), close |-> R(1),
    volume |-> R(1), timeframe |-> "1day", source |-> "binance",
    metadata |-> None]}

OhlcvLists == UNION {[1..n -> OhlcvObjects \cup PlainObjects] : n \in 0..MaxBatch}

\* the columns of uq_symbol_asset_timestamp_timeframe
RowKey(row) ==
  [symbol |-> row.symbol, asset_class |-> row.asset_class,
   timestamp |-> row.timestamp, timeframe |-> row.timeframe]

\* the filter_by arguments; asset_class.value needs an AssetClass
DataKey(d) ==
  [symbol |-> d.symbol, asset_class |-> d.asset_class.value,
   timestamp |-> d.timestamp, timeframe |-> d.timeframe]

\* the keys of the OHLCVData objects
DataKeys == {DataKey(d) : d \in OhlcvObjects}

\* session.query(OHLCVRecord).filter_by(...): the rows with the object's key
Existing(rows, d) == {r \in rows : RowKey(r) = DataKey(d)}

\* ViolatesUnique with the unique constraint absent from the table
ViolatesUniqueNever(rows, row) == FALSE

\* the unique constraint refuses a row whose key is already in the table
ViolatesUnique(rows, row) == \E r \in rows : RowKey(r) = RowKey(row)

RECURSIVE MaxId(_)
MaxId(rows) ==
  IF rows = {} THEN 0
  ELSE LET r == CHOOSE x \in rows : TRUE
           m == MaxId(rows \ {r})
       IN  IF r.id > m THEN r.id ELSE m

\* OHLCVRecord(...) for the object, with the next autoincrement id
NewRecord(rows, d) ==
  [id |-> MaxId(rows) + 1, symbol |-> d.symbol,
   asset_class |-> d.asset_class.value, timestamp |-> d.timestamp,
   open |-> d.open, high |-> d.high, low |-> d.low, close |-> d.close,
   volume |-> d.volume, timeframe |-> d.timeframe, source |-> d.source,
   metadata |-> d.metadata]

\* the assignments existing.open = ... existing.metadata = ...
UpdatedRecord(row, d) ==
  [row EXCEPT !.open = d.open, !.high = d.high, !.low = d.low,
              !.close = d.close, !.volume = d.volume, !.source = d.source,
              !.metadata = d.metadata]

\* rows with the first row of existing updated from the object
WithUpdate(rows, existing, d) ==
  LET first == CHOOSE r \in existing : TRUE
  IN  (rows \ {first}) \cup {UpdatedRecord(first, d)}

\* the row another writer commits under a key: its own values
OtherWriterRow(rows, key) ==
  [id |-> MaxId(rows) + 1, symbol |-> key.symbol,
   asset_class |-> key.asset_class, timestamp |-> key.timestamp,
   open |-> R(3), high |-> R(3), low |-> R(3), close |-> R(3),
   volume |-> None, timeframe |-> key.timeframe, source |-> "other",
   metadata |-> None]

\* the table after another writer has committed a row under each key of
\* raced that the table does not hold
RECURSIVE AfterOtherWriter(_, _)
AfterOtherWriter(rows, raced) ==
  IF raced = {} THEN rows
  ELSE LET key  == CHOOSE k \in raced : TRUE
           rest == AfterOtherWriter(rows, raced \ {key})
       IN  IF \E r \in rest : RowKey(r) = key THEN rest
           ELSE rest \cup {OtherWriterRow(rest, key)}

\* outcome of a store operation: the table afterwards and what the caller gets
StoreOutcome(rows, out) == [store |-> rows, out |-> out]

\* insert_ohlcv.  raced: another writer commits the object's key between
\* the query and the commit; lost: the commit raises an SQLAlchemyError that
\* is not an IntegrityError.  The retry of the IntegrityError handler is the
\* call insert_ohlcv(ohlcv_data, update_on_conflict=True) on the table as the
\* rollback left it.
RECURSIVE insert_ohlcv(_, _, _, _, _)
insert_ohlcv(rows, d, update_on_conflict, raced, lost) ==
  IF ~d.asset_class.enum THEN StoreOutcome(rows, Err("AttributeError"))
  ELSE
    LET existing == Existing(rows, d)
    IN  IF existing # {}
        THEN IF update_on_conflict
             THEN IF lost THEN StoreOutcome(rows, Err("DatabaseError"))
                  ELSE StoreOutcome(WithUpdate(rows, existing, d),
                                    Ok(<<[returned |-> TRUE]>>))
             ELSE StoreOutcome(rows, Ok(<<[returned |-> FALSE]>>))
        ELSE
          LET committed == IF raced THEN AfterOtherWriter(rows, {DataKey(d)})
                           ELSE rows
              record    == NewRecord(rows, d)
          IN  IF ViolatesUnique(committed, record)
              THEN IF update_on_conflict
                   THEN insert_ohlcv(committed, d, TRUE, FALSE, lost)
                   ELSE StoreOutcome(committed, Ok(<<[returned |-> FALSE]>>))
              ELSE IF lost THEN StoreOutcome(committed, Err("DatabaseError"))
              ELSE StoreOutcome(committed \cup {record},
                                Ok(<<[returned |-> TRUE]>>))

\* stats = {"inserted": 0, "updated": 0, "skipped": 0, "errors": 0}
NoStats == [inserted |-> 0, updated |-> 0, skipped |-> 0, errors |-> 0]

\* one pass of the inner loop of insert_batch over batch[1..k]: the rows the
\* session sees and the stats after it
RECURSIVE ProcessBatch(_, _, _, _, _)
ProcessBatch(view, stats, batch, k, update_on_conflict) ==
  IF k = 0 THEN [view |-> view, stats |-> stats]
  ELSE
    LET prev == ProcessBatch(view, stats, batch, k - 1, update_on_conflict)
        d    == batch[k]
    IN  IF ~d.asset_class.enum
        THEN [prev EXCEPT !.stats.errors = @ + 1]
        ELSE
          LET existing == Existing(prev.view, d)
          IN  IF existing # {}
              THEN IF update_on_conflict
                   THEN [view  |-> WithUpdate(prev.view, existing, d),
                         stats |-> [prev.stats EXCEPT !.updated = @ + 1]]
                   ELSE [prev EXCEPT !.stats.skipped = @ + 1]
              ELSE [view  |-> prev.view \cup {NewRecord(prev.view, d)},
                    stats |-> [prev.stats EXCEPT !.inserted = @ + 1]]

\* the retry loop after a failed batch commit, over batch[1..k]: each record
\* goes through insert_ohlcv; raised is set when insert_ohlcv raised
RECURSIVE RetryBatch(_, _, _, _, _)
RetryBatch(rows, stats, batch, k, update_on_conflict) ==
  IF k = 0 THEN [store |-> rows, stats |-> stats, raised |-> ""]
  ELSE
    LET prev == RetryBatch(rows, stats, batch, k - 1, update_on_conflict)
        one  == insert_ohlcv(prev.store, batch[k], update_on_conflict, FALSE, FALSE)
    IN  IF prev.raised # "" THEN prev
        ELSE IF ~one.out.ok
             THEN [store |-> one.store, stats |-> prev.stats, raised |-> one.out.err]
        ELSE IF one.out.recs[1].returned
             THEN [store  |-> one.store,
                   stats  |-> IF prev.stats.inserted > 0
                              THEN [prev.stats EXCEPT !.inserted = @ + 1]
                              ELSE [prev.stats EXCEPT !.updated = @ + 1],
                   raised |-> ""]
        ELSE [store  |-> one.store,
              stats  |-> [prev.stats EXCEPT !.skipped = @ + 1],
              raised |-> ""]

\* ohlcv_list[i : i + batch_size], i 0-based
BatchAt(ohlcv_list, i, batch_size) ==
  SubSeq(ohlcv_list, i + 1,
         IF i + batch_size < Len(ohlcv_list) THEN i + batch_size
         ELSE Len(ohlcv_list))

\* the outer loop of insert_batch from 0-based offset i.  raced: the keys
\* another writer commits between a batch's queries and its commit; lost:
\* a commit raises an SQLAlchemyError that is not an IntegrityError.
RECURSIVE InsertBatchFrom(_, _, _, _, _, _, _, _)
InsertBatchFrom(rows, stats, ohlcv_list, i, update_on_conflict, batch_size, raced, lost) ==
  IF i >= Len(ohlcv_list) THEN StoreOutcome(rows, Ok(<<stats>>))
  ELSE
    LET batch     == BatchAt(ohlcv_list, i, batch_size)
        pass      == ProcessBatch(rows, stats, batch, Len(batch), update_on_conflict)
        added     == {r \in pass.view : r.id > MaxId(rows)}
        committed == AfterOtherWriter(rows, raced)
    IN  IF \E r \in added : ViolatesUnique(committed, r)
        THEN LET retry == RetryBatch(committed, pass.stats, batch, Len(batch),
                                     update_on_conflict)
             IN  IF retry.raised # ""
                 THEN StoreOutcome(retry.store, Err(retry.raised))
                 ELSE InsertBatchFrom(retry.store, retry.stats, ohlcv_list,
                                      i + batch_size, update_on_conflict,
                                      batch_size, raced, lost)
        ELSE IF lost THEN StoreOutcome(rows, Err("DatabaseError"))
        ELSE InsertBatchFrom(pass.view, pass.stats, ohlcv_list, i + batch_size,
                             update_on_conflict, batch_size, raced, lost)

insert_batch(rows, ohlcv_list, update_on_conflict, batch_size, raced, lost) ==
  InsertBatchFrom(rows, NoStats, ohlcv_list, 0, update_on_conflict, batch_size,
                  raced, lost)

InitStore ==
  /\ bars = <<>>
  /\ pc = "ready"
  /\ call = NoCall
  /\ result = NoResult
  /\ memo = NoMemo
  /\ store = NoRows

\* a call of a DatabaseManager method: the table and the outcome change
InvokeStore(fn, args, outcome) ==
  /\ pc = "ready"
  /\ pc' = "done"
  /\ call' = [fn |-> fn, args |-> args]
  /\ result' = outcome.out
  /\ store' = outcome.store
  /\ UNCHANGED <<bars, memo>>

CallInsertOhlcv ==
  \E d \in OhlcvObjects \cup PlainObjects, update_on_conflict \in BOOLEAN,
     raced \in BOOLEAN, lost \in BOOLEAN :
    InvokeStore("insert_ohlcv", <<d, update_on_conflict>>,
                insert_ohlcv(store, d, update_on_conflict, raced, lost))

CallInsertBatch ==
  \E ohlcv_list \in OhlcvLists, update_on_conflict \in BOOLEAN,
     batch_size \in 1..MaxBatch, raced \in SUBSET DataKeys, lost \in BOOLEAN :
    InvokeStore("insert_batch", <<ohlcv_list, update_on_conflict, batch_size>>,
                insert_batch(store, ohlcv_list, update_on_conflict, batch_size,
                             raced, lost))

NextStore ==
  \/ CallInsertOhlcv
  \/ CallInsertBatch
  \/ Return

SpecStore == InitStore /\ [][NextStore]_vars

(***************************************************************************)
(* Properties.  Index i of a claim is 0-based: record i is result.recs[i+1]*)
(* and bar i is bars[i + 1].                                               *)
(***************************************************************************)
Done == pc = "done"

N == Len(bars)

Rec(i) == result.recs[i + 1]

AllFieldsNone(r) == \A f \in DOMAIN r : r[f] = None

\* the call returned len(input) records, every field None
AllUnavailable ==
  /\ result.ok
  /\ Len(result.recs) = N
  /\ \A i \in 1..N : AllFieldsNone(result.recs[i])

\* the call returned len(input) records
ReturnedAligned == result.ok /\ Len(result.recs) = N

\* sum of close over bars lo..hi (1-based, inclusive)
RECURSIVE SumClose(_, _)
SumClose(lo, hi) ==
  IF lo > hi THEN R(0) ELSE RAdd(bars[hi].close, SumClose(lo, hi - 1))

\* arithmetic mean of close[i - period + 1 .. i]
MeanClose(i, period) == RDiv(SumClose(i - period + 2, i + 1), R(period))

\* closes 1, 2, 3, 4, 5 of the worked examples
ExampleBars ==
  [i \in 1..5 |-> [high |-> R(i), low |-> R(i), close |-> R(i), volume |-> R(1)]]

\* C1: every call with positive period parameters returns a list of exactly
\* len(input) records, one per input bar.
C1_LengthInvariant == Done => ReturnedAligned

\* C2: on bars satisfying the OHLCV invariants and positive period
\* parameters, a calculate call returns a list and never raises.
C2_NeverRaises == Done => result.ok

\* the claim's minimum number of bars of the called indicator
Insufficient ==
  \/ call.fn \in {"sma", "ema", "bollinger"} /\ N < call.args[1]
  \/ call.fn \in {"rsi", "atr", "adx"} /\ N < call.args[1] + 1
  \/ call.fn = "macd" /\ N < call.args[2] + call.args[3]

\* C3: with fewer bars than the indicator's minimum, calculate returns
\* len(input) records whose every field is None, and raises nothing.
C3_InsufficientData == (Done /\ Insufficient) => AllUnavailable

C3_Witness ==
  /\ Done
  /\ call.fn = "macd"
  /\ N >= 1
  /\ N >= call.args[2]
  /\ N = call.args[2] + call.args[3] - 1
  /\ AllUnavailable

MonotoneFns == {"sma", "ema", "rsi", "macd", "bollinger", "atr", "adx", "stochastic"}

\* C4: in a result list of the eight windowed indicators a field that is
\* available at index i is available at every later index.
C4_MonotoneAvailability ==
  (Done /\ result.ok /\ call.fn \in MonotoneFns) =>
    \A i \in 1..Len(result.recs) : \A j \in i..Len(result.recs) :
      \A f \in DOMAIN result.recs[i] :
        result.recs[i][f] # None => result.recs[j][f] # None

C4_Witness ==
  /\ Done
  /\ result.ok
  /\ call.fn = "stochastic"
  /\ N = 4
  /\ Rec(0).stoch_k = None
  /\ Rec(1).stoch_k # None
  /\ Rec(1).stoch_d = None
  /\ Rec(2).stoch_d # None
  /\ Rec(3).stoch_d # None

\* C5: the MACD signal at index i is the signal_period-EMA of the MACD line
\* without its undefined prefix, evaluated at the same bar: the seed at index
\* slow_period - 1 + signal_period - 1, the recurrence on macd[i] afterwards.
C5_SignalAlignedWithMacd ==
  (/\ Done
   /\ call.fn = "macd"
   /\ result.ok
   /\ call.args[1] <= call.args[2]
   /\ N >= call.args[2] + call.args[3]) =>
    LET slow_period   == call.args[2]
        signal_period == call.args[3]
        valid == ValidMacd(MacdLine(Closes(bars), call.args[1], slow_period))
    IN  \A i \in 0..(N - 1) :
          Rec(i).signal =
            IF i < slow_period - 1 + signal_period - 1 THEN None
            ELSE Round(EmaAt(valid, signal_period, i - (slow_period - 1)), 8)

\* the field named after the indicator is first available at index k
FirstAvailableAt(k) ==
  /\ ReturnedAligned
  /\ k < N
  /\ Rec(k)[call.fn] # None
  /\ \A i \in 0..(k - 1) : Rec(i)[call.fn] = None

\* C6 as stated: for RSI and ATR, exactly period bars give an all-unavailable
\* result and exactly period + 1 bars give the first value at index period.
C6_FirstValueAtPeriod ==
  (Done /\ call.fn \in {"rsi", "atr"}) =>
    /\ N = call.args[1] => AllUnavailable
    /\ N = call.args[1] + 1 => FirstAvailableAt(call.args[1])

\* C6 (amended): exactly period bars give an all-unavailable result; exactly
\* period + 1 bars give the first RSI value at index period and the first
\* ATR value at index period - 1.
C6_FirstValueAmended ==
  (Done /\ call.fn \in {"rsi", "atr"}) =>
    /\ N = call.args[1] => AllUnavailable
    /\ N = call.args[1] + 1 =>
         FirstAvailableAt(IF call.fn = "rsi" THEN call.args[1] ELSE call.args[1] - 1)

C6_Witness ==
  /\ Done
  /\ call.fn = "atr"
  /\ call.args[1] = 3
  /\ N = 4
  /\ Rec(1).atr = None
  /\ Rec(2).atr # None

\* C7: a period-taking calculate function called with a zero or negative
\* period on a non-empty sequence fails with an error.
C7_BadPeriodFails ==
  (Done /\ HasBadPeriod(call.args) /\ N >= 1) => ~result.ok

\* the SMA worked example: closes 1..5, period 3
SmaExample ==
  sma_calculate(ExampleBars, 3).recs =
    <<[sma |-> None], [sma |-> None], [sma |-> R(2)], [sma |-> R(3)], [sma |-> R(4)]>>

\* C8 as stated: sma is None below index period - 1 and equals the arithmetic
\* mean of close[i - period + 1 .. i] from there on.
C8_SmaIsMean ==
  /\ SmaExample
  /\ (Done /\ call.fn = "sma" /\ N >= call.args[1]) =>
       /\ ReturnedAligned
       /\ \A i \in 0..(N - 1) :
            Rec(i).sma = IF i < call.args[1] - 1 THEN None
                         ELSE MeanClose(i, call.args[1])

\* C8 (amended): sma is None below index period - 1 and equals the arithmetic
\* mean of close[i - period + 1 .. i] rounded to 8 decimal places from there
\* on; closes 1..5 with period 3 give None, None, 2.0, 3.0, 4.0.
C8_SmaIsRoundedMean ==
  /\ SmaExample
  /\ (Done /\ call.fn = "sma" /\ N >= call.args[1]) =>
       /\ ReturnedAligned
       /\ \A i \in 0..(N - 1) :
            Rec(i).sma = IF i < call.args[1] - 1 THEN None
                         ELSE Round(MeanClose(i, call.args[1]), 8)

C8_Witness ==
  /\ Done
  /\ call.fn = "sma"
  /\ call.args[1] = 3
  /\ N = 4
  /\ Rec(1).sma = None
  /\ Rec(3).sma # None
  /\ Rec(3).sma # MeanClose(3, 3)

\* the EMA worked example: closes 1..5, period 3
EmaExample ==
  ema_calculate(ExampleBars, 3).recs =
    <<[ema |-> None], [ema |-> None], [ema |-> R(2)], [ema |-> R(3)], [ema |-> R(4)]>>

\* the recurrence of the claim on full-precision values
RECURSIVE ClaimedEma(_, _)
ClaimedEma(i, period) ==
  IF i = period - 1 THEN MeanClose(i, period)
  ELSE LET prev == ClaimedEma(i - 1, period)
           k    == RDiv(R(2), R(period + 1))
       IN  RAdd(RMul(RSub(bars[i + 1].close, prev), k), prev)

\* C9 as stated: ema is None below index period - 1, the mean of the first
\* period closes at period - 1, and (close[i] - ema[i-1]) * k + ema[i-1] on
\* the emitted values afterwards.
C9_EmaRecurrence ==
  /\ EmaExample
  /\ (Done /\ call.fn = "ema" /\ N >= call.args[1]) =>
       /\ ReturnedAligned
       /\ \A i \in 0..(N - 1) :
            Rec(i).ema =
              IF i < call.args[1] - 1 THEN None
              ELSE IF i = call.args[1] - 1 THEN MeanClose(i, call.args[1])
              ELSE LET prev == Rec(i - 1).ema
                       k    == RDiv(R(2), R(call.args[1] + 1))
                   IN  RAdd(RMul(RSub(bars[i + 1].close, prev), k), prev)

\* C9 (amended): ema[i] is the 8-decimal rounding of e[i], where e[period-1]
\* is the mean of the first period closes and e[i] = (close[i] - e[i-1]) * k
\* + e[i-1] on the unrounded values, k = 2 / (period + 1); None below index
\* period - 1; closes 1..5 with period 3 give 2.0, 3.0, 4.0 at indices 2..4.
C9_EmaRoundedRecurrence ==
  /\ EmaExample
  /\ (Done /\ call.fn = "ema" /\ N >= call.args[1]) =>
       /\ ReturnedAligned
       /\ \A i \in 0..(N - 1) :
            Rec(i).ema = IF i < call.args[1] - 1 THEN None
                         ELSE Round(ClaimedEma(i, call.args[1]), 8)

C9_Witness ==
  /\ Done
  /\ call.fn = "ema"
  /\ call.args[1] = 2
  /\ N = 4
  /\ Rec(0).ema = None
  /\ Rec(3).ema # None
  /\ Rec(3).ema # ClaimedEma(3, 2)

\* C10: every available rsi value lies in [0, 100].
C10_RsiBounds ==
  (Done /\ call.fn = "rsi" /\ result.ok) =>
    \A i \in 1..Len(result.recs) :
      result.recs[i].rsi # None =>
        /\ RLe(R(0), result.recs[i].rsi)
        /\ RLe(result.recs[i].rsi, R(100))

C10_Witness ==
  /\ Done
  /\ call.fn = "rsi"
  /\ result.ok
  /\ \E i \in 1..Len(result.recs) :
       /\ result.recs[i].rsi # None
       /\ RLt(R(0), result.recs[i].rsi)
       /\ RLt(result.recs[i].rsi, R(100))

\* v is a number in [0, 100]
InPercentRange(v) == RLe(R(0), v) /\ RLe(v, R(100))

\* C11: every available stoch_k and stoch_d value lies in [0, 100] (the bars
\* satisfy low <= close <= high).
C11_StochasticBounds ==
  (Done /\ call.fn = "stochastic" /\ result.ok) =>
    \A i \in 1..Len(result.recs) : \A f \in {"stoch_k", "stoch_d"} :
      result.recs[i][f] # None => InPercentRange(result.recs[i][f])

C11_Witness ==
  /\ Done
  /\ call.fn = "stochastic"
  /\ result.ok
  /\ \E i \in 1..N : result.recs[i].stoch_k = R(0)
  /\ \E i \in 1..N : result.recs[i].stoch_k = R(100)
  /\ \E i \in 1..N :
       /\ result.recs[i].stoch_d # None
       /\ RLt(R(0), result.recs[i].stoch_d)
       /\ RLt(result.recs[i].stoch_d, R(100))

\* every bar has high = low = close = the first bar's close
ConstantSeries ==
  /\ N >= 1
  /\ \A i \in 1..N :
       /\ bars[i].high = bars[1].close
       /\ bars[i].low = bars[1].close
       /\ bars[i].close = bars[1].close

ConstantFns == {"sma", "ema", "bollinger", "atr", "rsi"}

\* every available field of every record is c for sma, ema and the three
\* Bollinger bands, 0 for atr and 100 for rsi
ConstantValues(c) ==
  \A i \in 1..Len(result.recs) : \A f \in DOMAIN result.recs[i] :
    result.recs[i][f] # None =>
      result.recs[i][f] = (IF f = "atr" THEN R(0) ELSE IF f = "rsi" THEN R(100) ELSE c)

\* C12 as stated: on a constant-price series every available value is
\* sma = ema = bb_middle = bb_upper = bb_lower = C, atr = 0, rsi = 100.
C12_ConstantSeries ==
  (Done /\ result.ok /\ call.fn \in ConstantFns /\ ConstantSeries) =>
    ConstantValues(bars[1].close)

\* C12 (amended): on a constant-price series every available value is
\* sma = ema = bb_middle = bb_upper = bb_lower = C rounded to 8 decimal
\* places, atr = 0, rsi = 100.
C12_ConstantSeriesRounded ==
  (Done /\ result.ok /\ call.fn \in ConstantFns /\ ConstantSeries) =>
    ConstantValues(Round(bars[1].close, 8))

C12_Witness ==
  /\ Done
  /\ result.ok
  /\ call.fn = "bollinger"
  /\ ConstantSeries
  /\ N = 4
  /\ Rec(3).bb_upper # None
  /\ Rec(3).bb_upper # bars[1].close

\* highest high = lowest low over the k_period bars ending at index i
ZeroRangeWindow(i, k_period) ==
  \A j \in (i - k_period + 2)..(i + 1) :
    bars[j].high = bars[i + 1].high /\ bars[j].low = bars[i + 1].high

\* no close up to index i is below the close before it: avg_loss is 0 at i
NoLossUpTo(i) == \A j \in 1..i : ~RLt(bars[j + 1].close, bars[j].close)

\* the highs are all equal and the lows are all equal: +DM and -DM are 0 on
\* every bar, so DI+ + DI- is 0 (and smoothed TR is 0 when the bars are flat)
NoDirectionalMove ==
  \A j \in 1..N : bars[j].high = bars[1].high /\ bars[j].low = bars[1].low

HasVolume(j) == bars[j].volume # None /\ bars[j].volume # R(0)

\* sum over the bars 1..hi that have volume of typical price * volume
RECURSIVE SumPV(_)
SumPV(hi) ==
  IF hi = 0 THEN R(0)
  ELSE IF ~HasVolume(hi) THEN SumPV(hi - 1)
  ELSE RAdd(SumPV(hi - 1),
            RMul(RDiv(RAdd(RAdd(bars[hi].high, bars[hi].low), bars[hi].close), R(3)),
                 bars[hi].volume))

\* sum over the bars 1..hi that have volume of volume
RECURSIVE SumV(_)
SumV(hi) ==
  IF hi = 0 THEN R(0)
  ELSE IF ~HasVolume(hi) THEN SumV(hi - 1)
  ELSE RAdd(SumV(hi - 1), bars[hi].volume)

IncreasingConstantVolume ==
  /\ N >= 1
  /\ bars[1].volume # None
  /\ \A i \in 1..N : bars[i].volume = bars[1].volume
  /\ \A i \in 1..(N - 1) : RLt(bars[i].close, bars[i + 1].close)

\* C14 as stated: with strictly increasing closes and the same volume V on
\* every bar, obv at index i is V * (i + 1); V + V * (n - 1) at the last.
C14_ObvIncreasing ==
  (Done /\ call.fn = "obv" /\ IncreasingConstantVolume) =>
    /\ ReturnedAligned
    /\ \A i \in 0..(N - 1) : Rec(i).obv = RMul(bars[1].volume, R(i + 1))
    /\ Rec(N - 1).obv = RAdd(bars[1].volume, RMul(bars[1].volume, R(N - 1)))

\* C14 (amended): with strictly increasing closes and the same volume V on
\* every bar, obv at index i is V * (i + 1) rounded to 2 decimal places;
\* V + V * (n - 1) rounded to 2 decimal places at the last index.
C14_ObvIncreasingRounded ==
  (Done /\ call.fn = "obv" /\ IncreasingConstantVolume) =>
    /\ ReturnedAligned
    /\ \A i \in 0..(N - 1) : Rec(i).obv = Round(RMul(bars[1].volume, R(i + 1)), 2)
    /\ Rec(N - 1).obv =
         Round(RAdd(bars[1].volume, RMul(bars[1].volume, R(N - 1))), 2)

C14_Witness ==
  /\ Done
  /\ call.fn = "obv"
  /\ IncreasingConstantVolume
  /\ N = 2
  /\ Rec(1).obv # Rec(0).obv
  /\ Rec(1).obv # RMul(bars[1].volume, R(2))


PriceGe(a, b) == a # NaN /\ b # NaN /\ RLe(b, a)

\* the five invariants of a bar: high >= low, high >= max(open, close),
\* low <= min(open, close), open > 0, close > 0
OhlcvInvariants(dp) ==
  /\ PriceGe(dp.high, dp.low)
  /\ PriceGe(dp.high, dp.open) /\ PriceGe(dp.high, dp.close)
  /\ PriceGe(dp.open, dp.low) /\ PriceGe(dp.close, dp.low)
  /\ PriceGe(dp.open, R(0)) /\ dp.open # R(0)
  /\ PriceGe(dp.close, R(0)) /\ dp.close # R(0)

\* C16: validate_ohlcv returns exactly for the bars that satisfy the five
\* invariants and raises ValueError for every other bar; every bar that
\* fetch_ohlcv_binance returns satisfies them.
C16_ValidateExactly ==
  /\ (Done /\ call.fn = "validate_ohlcv") =>
       /\ result.ok <=> OhlcvInvariants(bars[call.args[1]])
       /\ ~result.ok => result.err = "ValueError"
  /\ (Done /\ call.fn = "fetch_ohlcv_binance" /\ result.ok) =>
       \A i \in 1..Len(result.recs) : OhlcvInvariants(result.recs[i])


\* the mean of the stoch_k values emitted at indices i - d_period + 1 .. i
RECURSIVE SumEmittedK(_, _)
SumEmittedK(lo, hi) ==
  IF lo > hi THEN R(0) ELSE RAdd(Rec(hi).stoch_k, SumEmittedK(lo, hi - 1))

\* C17: with len >= k_period, stoch_k is available exactly at the indices
\* i >= k_period - 1 and stoch_d exactly at the indices
\* i >= k_period + d_period - 2, where it is the mean of the last d_period
\* stoch_k values (as emitted, to 2 decimal places).
C17_StochasticAvailability ==
  (Done /\ call.fn = "stochastic" /\ N >= call.args[1]) =>
    LET k_period == call.args[1]
        d_period == call.args[2]
    IN  /\ ReturnedAligned
        /\ \A i \in 0..(N - 1) :
             /\ Rec(i).stoch_k # None <=> i >= k_period - 1
             /\ Rec(i).stoch_d # None <=> i >= k_period + d_period - 2
             /\ (Rec(i).stoch_d # None /\ i >= k_period + d_period - 2) =>
                  Rec(i).stoch_d =
                    Round(RDiv(SumEmittedK(i - d_period + 1, i), R(d_period)), 2)


\* the DX series of the call: dx[i + 1] is the DX of the bar at index
\* i >= period - 1
DxSeries ==
  DxValues(DiPlusValues(bars, call.args[1]), DiMinusValues(bars, call.args[1]))

\* sum of the DX series dx over the indices lo..hi
RECURSIVE SumDx(_, _, _)
SumDx(dx, lo, hi) ==
  IF lo > hi THEN R(0) ELSE RAdd(dx[hi + 1], SumDx(dx, lo, hi - 1))

\* the mean of the first period DX values: indices period - 1 .. 2 * period - 2
FirstDxMean(dx, period) == RDiv(SumDx(dx, period - 1, 2 * period - 2), R(period))

\* the index of the first record whose adx is available
FirstAdxIndex ==
  CHOOSE i \in 0..(N - 1) :
    Rec(i).adx # None /\ \A j \in 0..(i - 1) : Rec(j).adx = None

\* the recurrence of the claim on full-precision values, from the first
\* adx at 0-based index first
RECURSIVE ClaimedAdx(_, _, _, _)
ClaimedAdx(dx, i, first, period) ==
  IF i = first THEN FirstDxMean(dx, period)
  ELSE LET prev == ClaimedAdx(dx, i - 1, first, period)
       IN  RAdd(RMul(RSub(dx[i + 1], prev), RDiv(R(2), R(period + 1))), prev)

\* a series too short for period DX values: period + 1 <= len < 2 * period - 1
TooFewDx == N >= call.args[1] + 1 /\ N < 2 * call.args[1] - 1

\* a series with period DX values
EnoughDx == N >= call.args[1] + 1 /\ N >= 2 * call.args[1] - 1

\* C18 as stated: the first adx is the mean of the first period DX values,
\* every later adx[i] is (DX[i] - adx[i-1]) * 2 / (period + 1) + adx[i-1]
\* on the emitted values, and a series with fewer than period DX values
\* gives all-unavailable records.
C18_AdxSeedAndSmoothing ==
  /\ (Done /\ call.fn = "adx" /\ TooFewDx) => AllUnavailable
  /\ (Done /\ call.fn = "adx" /\ EnoughDx) =>
       /\ ReturnedAligned
       /\ \E i \in 0..(N - 1) : Rec(i).adx # None
       /\ LET dx == DxSeries
          IN  /\ Rec(FirstAdxIndex).adx = FirstDxMean(dx, call.args[1])
              /\ \A i \in (FirstAdxIndex + 1)..(N - 1) :
                   /\ Rec(i).adx # None
                   /\ Rec(i).adx =
                        RAdd(RMul(RSub(dx[i + 1], Rec(i - 1).adx),
                                  RDiv(R(2), R(call.args[1] + 1))), Rec(i - 1).adx)

\* C18 (amended): the first adx is the mean of the first period DX values
\* rounded to 2 decimal places, every later adx[i] is a[i] rounded to 2
\* decimal places where a[i] = (DX[i] - a[i-1]) * 2 / (period + 1) + a[i-1]
\* on the unrounded values, and a series with fewer than period DX values
\* gives all-unavailable records.
C18_AdxSeedAndSmoothingRounded ==
  /\ (Done /\ call.fn = "adx" /\ TooFewDx) => AllUnavailable
  /\ (Done /\ call.fn = "adx" /\ EnoughDx) =>
       /\ ReturnedAligned
       /\ \E i \in 0..(N - 1) : Rec(i).adx # None
       /\ LET dx    == DxSeries
              first == FirstAdxIndex
          IN  \A i \in first..(N - 1) :
                /\ Rec(i).adx # None
                /\ Rec(i).adx = Round(ClaimedAdx(dx, i, first, call.args[1]), 2)

C18_Witness ==
  /\ Done
  /\ call.fn = "adx"
  /\ EnoughDx
  /\ N = 4
  /\ Rec(3).adx # None
  /\ Rec(3).adx # Rec(2).adx
  /\ Rec(3).adx # ClaimedAdx(DxSeries, 3, FirstAdxIndex, call.args[1])


\* the unrounded MACD line of the claim: fast EMA - slow EMA of the closes
\* from index max(fast_period, slow_period) - 1 on, None before
ClaimedMacdLine(fast_period, slow_period) ==
  [j \in 1..N |->
     IF j - 1 < Max2(fast_period, slow_period) - 1 THEN None
     ELSE RSub(ClaimedEma(j - 1, fast_period), ClaimedEma(j - 1, slow_period))]

\* the unrounded signal line that calculate derives from that MACD line
ClaimedSignalLine(macd_line, signal_period) == SignalLine(macd_line, signal_period)

\* C19 as stated: with len >= slow_period + signal_period, macd is available
\* exactly at the indices i >= max(fast_period, slow_period) - 1, where it
\* is fast_ema[i] - slow_ema[i]; histogram is available exactly where macd
\* and signal both are, and is the unrounded macd[i] - signal[i].
C19_MacdAndHistogram ==
  (Done /\ call.fn = "macd" /\ N >= call.args[2] + call.args[3]) =>
    LET m  == ClaimedMacdLine(call.args[1], call.args[2])
        sg == ClaimedSignalLine(m, call.args[3])
    IN  /\ ReturnedAligned
        /\ \A i \in 0..(N - 1) :
             /\ Rec(i).macd = m[i + 1]
             /\ Rec(i).histogram # None <=>
                  (Rec(i).macd # None /\ Rec(i).signal # None)
             /\ Rec(i).histogram # None =>
                  Rec(i).histogram = RSub(m[i + 1], sg[i + 1])

\* C19 (amended): with len >= slow_period + signal_period, macd is
\* available exactly at the indices i >= max(fast_period, slow_period) - 1,
\* where it is fast_ema[i] - slow_ema[i] rounded to 8 decimal places;
\* histogram is available exactly where macd and signal both are, and is
\* the difference of the unrounded macd[i] and signal[i], rounded to 8
\* decimal places.
C19_MacdAndHistogramRounded ==
  (Done /\ call.fn = "macd" /\ N >= call.args[2] + call.args[3]) =>
    LET m  == ClaimedMacdLine(call.args[1], call.args[2])
        sg == ClaimedSignalLine(m, call.args[3])
    IN  /\ ReturnedAligned
        /\ \A i \in 0..(N - 1) :
             /\ Rec(i).macd = RoundOpt(m[i + 1], 8)
             /\ Rec(i).histogram # None <=>
                  (Rec(i).macd # None /\ Rec(i).signal # None)
             /\ Rec(i).histogram # None =>
                  Rec(i).histogram = Round(RSub(m[i + 1], sg[i + 1]), 8)

C19_Witness ==
  /\ Done
  /\ call.fn = "macd"
  /\ call.args[1] > call.args[2]
  /\ N = 4
  /\ Rec(0).macd = None
  /\ Rec(3).macd # None
  /\ Rec(3).macd # ClaimedMacdLine(call.args[1], call.args[2])[4]
  /\ Rec(2).histogram = None
  /\ Rec(3).histogram # None
  /\ Rec(3).histogram #
       RSub(ClaimedMacdLine(call.args[1], call.args[2])[4],
            ClaimedSignalLine(ClaimedMacdLine(call.args[1], call.args[2]), call.args[3])[4])


\* the gain (up = TRUE) or loss (up = FALSE) of the price change into bar i
ChangePart(i, up) ==
  LET change == RSub(bars[i + 1].close, bars[i].close)
      part   == IF up THEN change ELSE RSub(R(0), change)
  IN  IF RLt(R(0), part) THEN part ELSE R(0)

\* sum of the gains or losses of the price changes into bars 1..hi
RECURSIVE SumParts(_, _)
SumParts(hi, up) ==
  IF hi < 1 THEN R(0) ELSE RAdd(ChangePart(hi, up), SumParts(hi - 1, up))

\* the average gain or loss of the claim at index i >= period: the mean over
\* the first period changes at index period, then (avg * (period - 1) +
\* current) / period
RECURSIVE ClaimedAvg(_, _, _)
ClaimedAvg(i, period, up) ==
  IF i = period THEN RDiv(SumParts(period, up), R(period))
  ELSE RDiv(RAdd(RMul(ClaimedAvg(i - 1, period, up), R(period - 1)),
                 ChangePart(i, up)), R(period))

\* 100 - 100 / (1 + avg_gain / avg_loss), for avg_loss # 0
ClaimedRsi(avg_gain, avg_loss) ==
  RSub(R(100), RDiv(R(100), RAdd(R(1), RDiv(avg_gain, avg_loss))))

\* C20 as stated: rsi is unavailable below index period; from index period
\* on it is 100 - 100 / (1 + avg_gain / avg_loss) with the averages seeded
\* by the means over the first period changes and updated as
\* (avg * (period - 1) + current) / period for every later bar.
C20_RsiSeedAndSmoothing ==
  (Done /\ call.fn = "rsi" /\ N >= call.args[1] + 1) =>
    /\ ReturnedAligned
    /\ \A i \in 0..(N - 1) :
         IF i < call.args[1] THEN Rec(i).rsi = None
         ELSE LET avg_gain == ClaimedAvg(i, call.args[1], TRUE)
                  avg_loss == ClaimedAvg(i, call.args[1], FALSE)
              IN  /\ Rec(i).rsi # None
                  /\ avg_loss # R(0) => Rec(i).rsi = ClaimedRsi(avg_gain, avg_loss)

\* C20 (amended): rsi is unavailable below index period; from index period
\* on it is 100 - 100 / (1 + avg_gain / avg_loss) rounded to 2 decimal
\* places, and 100 when avg_loss is 0, with the averages seeded by the means
\* over the first period changes and updated as
\* (avg * (period - 1) + current) / period for every later bar.
C20_RsiSeedAndSmoothingRounded ==
  (Done /\ call.fn = "rsi" /\ N >= call.args[1] + 1) =>
    /\ ReturnedAligned
    /\ \A i \in 0..(N - 1) :
         IF i < call.args[1] THEN Rec(i).rsi = None
         ELSE LET avg_gain == ClaimedAvg(i, call.args[1], TRUE)
                  avg_loss == ClaimedAvg(i, call.args[1], FALSE)
              IN  Rec(i).rsi = IF avg_loss = R(0) THEN R(100)
                               ELSE Round(ClaimedRsi(avg_gain, avg_loss), 2)

C20_Witness ==
  /\ Done
  /\ call.fn = "rsi"
  /\ call.args[1] = 2
  /\ N = 4
  /\ Rec(1).rsi = None
  /\ Rec(2).rsi # None
  /\ ClaimedAvg(3, 2, FALSE) # R(0)
  /\ ClaimedAvg(3, 2, TRUE) # R(0)
  /\ Rec(3).rsi # ClaimedRsi(ClaimedAvg(3, 2, TRUE), ClaimedAvg(3, 2, FALSE))


\* the true range of the claim for the bar at index i of the call's input
ClaimedTR(i) ==
  IF i = 0 THEN RSub(bars[1].high, bars[1].low)
  ELSE RMax(RSub(bars[i + 1].high, bars[i + 1].low),
            RMax(RAbs(RSub(bars[i + 1].high, bars[i].close)),
                 RAbs(RSub(bars[i + 1].low, bars[i].close))))

\* the sum of the claim's true ranges over the indices lo..hi
RECURSIVE SumTR(_, _)
SumTR(lo, hi) == IF lo > hi THEN R(0) ELSE RAdd(ClaimedTR(hi), SumTR(lo, hi - 1))

\* the recurrence of the claim on full-precision values
RECURSIVE ClaimedAtr(_, _)
ClaimedAtr(i, period) ==
  IF i = period - 1 THEN RDiv(SumTR(0, period - 1), R(period))
  ELSE LET prev == ClaimedAtr(i - 1, period)
       IN  RAdd(RMul(RSub(ClaimedTR(i), prev), RDiv(R(2), R(period + 1))), prev)

\* C21 as stated: with len >= period + 1 the first atr is the mean of
\* TR[0..period-1] at index period - 1 and every later atr[i] is
\* (TR[i] - atr[i-1]) * 2 / (period + 1) + atr[i-1] on the emitted values.
C21_AtrSeedAndSmoothing ==
  (Done /\ call.fn = "atr" /\ N >= call.args[1] + 1) =>
    LET period == call.args[1]
    IN  /\ ReturnedAligned
        /\ \A i \in 0..(N - 1) :
             Rec(i).atr =
               IF i < period - 1 THEN None
               ELSE IF i = period - 1 THEN RDiv(SumTR(0, period - 1), R(period))
               ELSE LET prev == Rec(i - 1).atr
                    IN  RAdd(RMul(RSub(ClaimedTR(i), prev), RDiv(R(2), R(period + 1))),
                             prev)

\* C21 (amended): with len >= period + 1, atr is None below index
\* period - 1 and atr[i] is a[i] rounded to 8 decimal places for
\* i >= period - 1, where a[period-1] is the mean of TR[0..period-1] and
\* a[i] = (TR[i] - a[i-1]) * 2 / (period + 1) + a[i-1] on the unrounded
\* values; TR of bar 0 is high - low and of bar i > 0 is
\* max(high - low, |high - prev_close|, |low - prev_close|).
C21_AtrSeedAndSmoothingRounded ==
  (Done /\ call.fn = "atr" /\ N >= call.args[1] + 1) =>
    LET period == call.args[1]
    IN  /\ ReturnedAligned
        /\ \A i \in 0..(N - 1) :
             Rec(i).atr =
               IF i < period - 1 THEN None
               ELSE Round(ClaimedAtr(i, period), 8)

C21_Witness ==
  /\ Done
  /\ call.fn = "atr"
  /\ call.args[1] = 3
  /\ N = 4
  /\ Rec(1).atr = None
  /\ Rec(2).atr # None
  /\ Rec(3).atr # Rec(2).atr
  /\ Rec(3).atr # ClaimedAtr(3, 3)
  /\ ClaimedTR(3) # RSub(bars[4].high, bars[4].low)


\* the signed volume bar i >= 1 contributes to the running total: 0 when its
\* volume is missing, + volume when its close is above the previous bar's
\* close, - volume when below, 0 when equal
SignedVolume(i) ==
  IF bars[i + 1].volume = None THEN R(0)
  ELSE IF RLt(bars[i].close, bars[i + 1].close) THEN bars[i + 1].volume
  ELSE IF RLt(bars[i + 1].close, bars[i].close) THEN RSub(R(0), bars[i + 1].volume)
  ELSE R(0)

\* the sum of the signed volumes of the bars lo..hi
RECURSIVE SumSignedVolume(_, _)
SumSignedVolume(lo, hi) ==
  IF lo > hi THEN R(0) ELSE RAdd(SignedVolume(hi), SumSignedVolume(lo, hi - 1))

\* the running total of the claim after bar i: the volume of bar 0 (0 when
\* it is missing) plus the signed volumes of the bars 1..i
ClaimedObvTotal(i) ==
  RAdd(IF bars[1].volume = None THEN R(0) ELSE bars[1].volume,
       SumSignedVolume(1, i))

\* C22: an obv record is unavailable exactly when that bar's volume is
\* missing; a missing-volume bar leaves the running total unchanged and the
\* next bar with volume continues from it, adding its volume when its close
\* is above the previous bar's close, subtracting it when below, leaving the
\* total unchanged when equal; an available record is the running total to
\* 2 decimal places.
C22_ObvMissingVolume ==
  (Done /\ call.fn = "obv") =>
    /\ ReturnedAligned
    /\ \A i \in 0..(N - 1) :
         /\ Rec(i).obv = None <=> bars[i + 1].volume = None
         /\ bars[i + 1].volume # None =>
              Rec(i).obv = Round(ClaimedObvTotal(i), 2)

C22_Witness ==
  /\ Done
  /\ call.fn = "obv"
  /\ N = 4
  /\ bars[1].volume # None
  /\ bars[2].volume = None
  /\ Rec(1).obv = None
  /\ Rec(0).obv = R(1)
  /\ Rec(2).obv = R(2)
  /\ Rec(3).obv = R(1)


\* C23 as stated: a vwap record is unavailable exactly when that bar's
\* volume is missing or zero, and every other bar's vwap is the sum of
\* typical * volume divided by the sum of volume over the bars 0..i that
\* have non-zero volume, typical = (high + low + close) / 3.
C23_VwapCumulative ==
  (Done /\ call.fn = "vwap") =>
    /\ ReturnedAligned
    /\ \A i \in 0..(N - 1) :
         /\ Rec(i).vwap = None <=> ~HasVolume(i + 1)
         /\ HasVolume(i + 1) => Rec(i).vwap = RDiv(SumPV(i + 1), SumV(i + 1))

\* C23 (amended): a vwap record is unavailable exactly when that bar's
\* volume is missing or zero, such a bar leaves the cumulative sums
\* unchanged, and every other bar's vwap is the sum of typical * volume
\* divided by the sum of volume over the bars 0..i that have non-zero
\* volume, rounded to 8 decimal places.
C23_VwapCumulativeRounded ==
  (Done /\ call.fn = "vwap") =>
    /\ ReturnedAligned
    /\ \A i \in 0..(N - 1) :
         /\ Rec(i).vwap = None <=> ~HasVolume(i + 1)
         /\ HasVolume(i + 1) =>
              Rec(i).vwap = Round(RDiv(SumPV(i + 1), SumV(i + 1)), 8)

C23_Witness ==
  /\ Done
  /\ call.fn = "vwap"
  /\ N = 4
  /\ bars[1].volume = R(1)
  /\ bars[2].volume = None
  /\ bars[3].volume = R(0)
  /\ bars[4].volume = R(1)
  /\ Rec(0).vwap = R(1)
  /\ Rec(1).vwap = None
  /\ Rec(2).vwap = None
  /\ Rec(3).vwap = Norm(3, 2)


\* the input sequences of the same length as the call's input that agree
\* with it on the bars 0..i
SameUpTo(i) ==
  {other \in BarSeqs : Len(other) = N /\ \A j \in 1..(i + 1) : other[j] = bars[j]}

\* C25: ADX has no look-ahead.  For every input of the same length that
\* agrees with the call's input on the bars 0..i, the call on it returns the
\* same adx, di_plus and di_minus at index i.
C25_AdxNoLookAhead ==
  (Done /\ call.fn = "adx") =>
    /\ ReturnedAligned
    /\ \A i \in 0..(N - 1) :
         \A other \in SameUpTo(i) :
           LET out == adx_calculate(other, call.args[1])
           IN  out.ok /\ out.recs[i + 1] = Rec(i)


\* the nine indicators whose batch result extends bar by bar
PrefixFns ==
  {"sma", "ema", "rsi", "atr", "bollinger", "stochastic", "macd", "obv", "vwap"}

\* the outcome of the call fn(data, args) for one of the ten indicators
Calculate(fn, args, data) ==
  CASE fn = "sma"        -> sma_calculate(data, args[1])
    [] fn = "ema"        -> ema_calculate(data, args[1])
    [] fn = "rsi"        -> rsi_calculate(data, args[1])
    [] fn = "macd"       -> macd_calculate(data, args[1], args[2], args[3])
    [] fn = "bollinger"  -> bollinger_calculate(data, args[1], args[2])
    [] fn = "atr"        -> atr_calculate(data, args[1])
    [] fn = "adx"        -> adx_calculate(data, args[1])
    [] fn = "stochastic" -> stochastic_calculate(data, args[1], args[2])
    [] fn = "obv"        -> obv_calculate(data)
    [] fn = "vwap"       -> vwap_calculate(data)

\* C26: for SMA, EMA, RSI, ATR, Bollinger, Stochastic, MACD, OBV and VWAP,
\* for the input S of the call and every proper prefix P of S, every field
\* that is available at an index i < len(P) in calculate(P) has the same
\* value at index i in calculate(S).
C26_PrefixConsistent ==
  (Done /\ call.fn \in PrefixFns) =>
    \A k \in 0..(N - 1) :
      LET out == Calculate(call.fn, call.args, SubSeq(bars, 1, k))
      IN  out.ok =>
            \A i \in 0..(k - 1) :
              \A f \in DOMAIN out.recs[i + 1] :
                out.recs[i + 1][f] # None =>
                  /\ ReturnedAligned
                  /\ Rec(i)[f] = out.recs[i + 1][f]

C26_Witness ==
  /\ Done
  /\ call.fn = "ema"
  /\ call.args[1] = 2
  /\ N = 4
  /\ LET out == Calculate(call.fn, call.args, SubSeq(bars, 1, 3))
     IN  /\ out.ok
         /\ out.recs[3].ema # None
         /\ out.recs[3].ema # out.recs[2].ema
         /\ Rec(2).ema = out.recs[3].ema
         /\ Rec(3).ema # Rec(2).ema


\* C27: MACD with fast_period < slow_period on a series with
\* len >= slow_period + signal_period returns macd, signal and histogram all
\* available at the last index.
C27_MacdLastAvailable ==
  (Done /\ call.fn = "macd" /\ call.args[1] < call.args[2]
     /\ N >= call.args[2] + call.args[3]) =>
    /\ ReturnedAligned
    /\ Rec(N - 1).macd # None
    /\ Rec(N - 1).signal # None
    /\ Rec(N - 1).histogram # None


\* every bar of the call's input has low <= close <= high
ShapedInput == \A j \in 1..N : RLe(bars[j].low, bars[j].close) /\ RLe(bars[j].close, bars[j].high)

\* at the bar of index i at most one of +DM and -DM is non-zero, neither is
\* negative and each is at most the bar's true range
DirectionalMoveWithinRange(i) ==
  LET plus  == PlusDM(bars, i)
      minus == MinusDM(bars, i)
      tr    == TrueRange(bars, i)
  IN  /\ plus = R(0) \/ minus = R(0)
      /\ RLe(R(0), plus) /\ RLe(plus, tr)
      /\ RLe(R(0), minus) /\ RLe(minus, tr)

\* C28 as stated: for bars with low <= close <= high, at every bar at most
\* one of +DM and -DM is non-zero and each is at most the bar's true range,
\* every available di_plus, di_minus and adx lies in [0, 100], and
\* di_plus + di_minus <= 100.
C28_AdxBounds ==
  (Done /\ call.fn = "adx" /\ ShapedInput) =>
    /\ ReturnedAligned
    /\ \A i \in 0..(N - 1) :
         /\ DirectionalMoveWithinRange(i)
         /\ IsAvailable(Rec(i).di_plus) => InPercentRange(Rec(i).di_plus)
         /\ IsAvailable(Rec(i).di_minus) => InPercentRange(Rec(i).di_minus)
         /\ IsAvailable(Rec(i).adx) => InPercentRange(Rec(i).adx)
         /\ Rec(i).di_plus # None =>
              RLe(RAdd(Rec(i).di_plus, Rec(i).di_minus), R(100))

\* C28 (amended): for bars with low <= close <= high, at every bar at most
\* one of +DM and -DM is non-zero and each is at most the bar's true range,
\* every available di_plus, di_minus and adx lies in [0, 100], and
\* di_plus + di_minus, each rounded to 2 decimal places, is at most 100.01.
C28_AdxBoundsRounded ==
  (Done /\ call.fn = "adx" /\ ShapedInput) =>
    /\ ReturnedAligned
    /\ \A i \in 0..(N - 1) :
         /\ DirectionalMoveWithinRange(i)
         /\ IsAvailable(Rec(i).di_plus) => InPercentRange(Rec(i).di_plus)
         /\ IsAvailable(Rec(i).di_minus) => InPercentRange(Rec(i).di_minus)
         /\ IsAvailable(Rec(i).adx) => InPercentRange(Rec(i).adx)
         /\ Rec(i).di_plus # None =>
              RLe(RAdd(Rec(i).di_plus, Rec(i).di_minus), Norm(10001, 100))

C28_Witness ==
  /\ Done
  /\ call.fn = "adx"
  /\ call.args[1] = 2
  /\ ShapedInput
  /\ N = 3
  /\ bars[1].close = R(4000)
  /\ bars[2].close = R(4001)
  /\ bars[3].close = R(2)
  /\ Rec(2).di_plus = Norm(3, 100)
  /\ Rec(2).di_minus = Norm(9998, 100)
  /\ Rec(1).adx = Norm(9997, 100)
  /\ Rec(2).adx = Norm(9996, 100)



\* every bar of the call's input has volume None or volume >= 0
NonNegativeVolume ==
  \A j \in 1..N : bars[j].volume = None \/ RLe(R(0), bars[j].volume)

\* the lowest low of the bars 1..hi that have volume (bar hi has)
RECURSIVE MinLowWithVolume(_)
MinLowWithVolume(hi) ==
  IF \A j \in 1..(hi - 1) : ~HasVolume(j) THEN bars[hi].low
  ELSE IF ~HasVolume(hi) THEN MinLowWithVolume(hi - 1)
  ELSE RMin(bars[hi].low, MinLowWithVolume(hi - 1))

\* the highest high of the bars 1..hi that have volume (bar hi has)
RECURSIVE MaxHighWithVolume(_)
MaxHighWithVolume(hi) ==
  IF \A j \in 1..(hi - 1) : ~HasVolume(j) THEN bars[hi].high
  ELSE IF ~HasVolume(hi) THEN MaxHighWithVolume(hi - 1)
  ELSE RMax(bars[hi].high, MaxHighWithVolume(hi - 1))

\* a value with at most 8 decimal places as a whole number of units of 10^-8
Units8(x) == x[1] * (Pow10(8) \div x[2])

\* C29 as stated: for bars with low <= close <= high and non-negative volume,
\* every available vwap[i] lies between the minimum low and the maximum high
\* of the bars 0..i that have non-zero volume, and the cumulative volume is
\* strictly positive whenever a vwap value is emitted.
C29_VwapBounds ==
  (Done /\ call.fn = "vwap" /\ ShapedInput /\ NonNegativeVolume) =>
    /\ ReturnedAligned
    /\ \A i \in 0..(N - 1) :
         Rec(i).vwap # None =>
           /\ HasVolume(i + 1)
           /\ RLe(MinLowWithVolume(i + 1), Rec(i).vwap)
           /\ RLe(Rec(i).vwap, MaxHighWithVolume(i + 1))
           /\ RLt(R(0), VwapCum(bars, i)[2])

\* C29 (amended): for bars with low <= close <= high and non-negative volume,
\* every available vwap[i] lies between the minimum low and the maximum high
\* of the bars 0..i that have non-zero volume, each rounded to 8 decimal
\* places, and the cumulative volume is strictly positive whenever a vwap
\* value is emitted.
C29_VwapBoundsRounded ==
  (Done /\ call.fn = "vwap" /\ ShapedInput /\ NonNegativeVolume) =>
    /\ ReturnedAligned
    /\ \A i \in 0..(N - 1) :
         Rec(i).vwap # None =>
           /\ HasVolume(i + 1)
           /\ Units8(Round(MinLowWithVolume(i + 1), 8)) <= Units8(Rec(i).vwap)
           /\ Units8(Rec(i).vwap) <= Units8(Round(MaxHighWithVolume(i + 1), 8))
           /\ RLt(R(0), VwapCum(bars, i)[2])

C29_Witness ==
  /\ Done
  /\ call.fn = "vwap"
  /\ ShapedInput
  /\ NonNegativeVolume
  /\ N = 3
  /\ bars[1].volume = R(0)
  /\ HasVolume(2)
  /\ HasVolume(3)
  /\ RLt(bars[3].low, bars[2].low)
  /\ Rec(0).vwap = None
  /\ Rec(2).vwap # None
  /\ RLt(MinLowWithVolume(3), Rec(2).vwap)
  /\ RLt(Rec(2).vwap, MaxHighWithVolume(3))
  /\ RLt(R(0), VwapCum(bars, 2)[2])



\* the table holds at most one row under each key
OnePerKey(rows) == \A r1, r2 \in rows : RowKey(r1) = RowKey(r2) => r1 = r2

\* the row carries the object's open, high, low, close, volume and source
HoldsValues(row, d) ==
  /\ row.open = d.open
  /\ row.high = d.high
  /\ row.low = d.low
  /\ row.close = d.close
  /\ row.volume = d.volume
  /\ row.source = d.source

\* the table holds a row under the object's key and each such row carries
\* the object's values
StoredAs(rows, d) ==
  /\ \E r \in rows : RowKey(r) = DataKey(d)
  /\ \A r \in rows : RowKey(r) = DataKey(d) => HoldsValues(r, d)

\* the rows of the table under the object's key
RowsUnder(rows, d) == {r \in rows : RowKey(r) = DataKey(d)}

\* the object is the last one of the list with its key that has an AssetClass
LastOfKey(ohlcv_list, k) ==
  /\ ohlcv_list[k].asset_class.enum
  /\ \A j \in (k + 1)..Len(ohlcv_list) :
       ohlcv_list[j].asset_class.enum => DataKey(ohlcv_list[j]) # DataKey(ohlcv_list[k])

\* a step that is a returning insert_ohlcv call keeps the claim
InsertOhlcvStep ==
  LET d == call'.args[1]
  IN  (call'.fn = "insert_ohlcv" /\ d.asset_class.enum /\ RowsUnder(store, d) # {}) =>
        IF call'.args[2]
        THEN result'.ok => (result'.recs[1].returned /\ StoredAs(store', d))
        ELSE result'.ok /\ ~result'.recs[1].returned /\ store' = store

\* a step that is a returning insert_batch call keeps the claim
InsertBatchStep ==
  LET ohlcv_list == call'.args[1]
  IN  (call'.fn = "insert_batch" /\ result'.ok) =>
        \A k \in 1..Len(ohlcv_list) :
          (LastOfKey(ohlcv_list, k) /\ RowsUnder(store, ohlcv_list[k]) # {}) =>
            IF call'.args[2]
            THEN StoredAs(store', ohlcv_list[k])
            ELSE RowsUnder(store', ohlcv_list[k]) = RowsUnder(store, ohlcv_list[k])

\* C24: after any sequence of insert_ohlcv and insert_batch calls the store
\* holds at most one record per key (symbol, asset_class, timestamp,
\* timeframe); inserting a bar whose key already exists overwrites the
\* record's open, high, low, close, volume and source with the bar's values
\* when update_on_conflict is True, and when it is False leaves the stored
\* record unchanged and insert_ohlcv returns False.
C24_OneRecordPerKey ==
  [][OnePerKey(store') /\ InsertOhlcvStep /\ InsertBatchStep]_vars

C24_Witness ==
  /\ Done
  /\ call.fn = "insert_ohlcv"
  /\ call.args[2] = FALSE
  /\ call.args[1].source = "massive"
  /\ result.ok
  /\ ~result.recs[1].returned
  /\ Cardinality(RowsUnder(store, call.args[1])) = 1
  /\ \A r \in RowsUnder(store, call.args[1]) : r.source = "binance"

\* the sum of the four counters of a stats dictionary
StatsTotal(stats) == stats.inserted + stats.updated + stats.skipped + stats.errors

\* C30: whenever insert_batch returns, inserted + updated + skipped + errors
\* equals len(ohlcv_list), also when a batch commit failed with an integrity
\* error and the batch was retried record by record.
C30_BatchAccounting ==
  (Done /\ call.fn = "insert_batch" /\ result.ok) =>
    StatsTotal(result.recs[1]) = Len(call.args[1])

====
